---- MODULE Spec2Model ----
(***************************************************************************)
(* Model of the recipier meal-planning engine (recipier/meal_planner.py    *)
(* and recipier/rounding_warnings.py): expansion of a scheduled plan,      *)
(* plan-level aggregation, package rounding, distribution of the rounded   *)
(* total across shopping trips, calorie compensation and rounding          *)
(* warnings.                                                               *)
(*                                                                         *)
(* Numbers.  Quantities and unit sizes are integers.  Every Python float   *)
(* expression of the engine is a quotient of integers here, kept exact as  *)
(* a pair (numerator, denominator); round() is Python 3's round-half-to-   *)
(* even and math.ceil is the ceiling of the exact quotient.                *)
(***************************************************************************)
EXTENDS Integers, Sequences, FiniteSets, TLC

VARIABLES
    \* --- one call of distribute_rounded_quantity_across_trips -----------
    d_pc,              \* "args" | "total" | "returned" | "idle"
    d_unit_size,       \* argument unit_size
    d_trip_needs,      \* argument trip_needs: sequence of <<trip_index, need>>
    d_rounded_total,   \* argument rounded_total
    d_source,          \* who produced rounded_total: "rounder" | "caller"
    d_result,          \* the returned list of per-trip quantities
    \* --- one planning request -----------------------------------------
    pc,                \* position of the request in the pipeline
    meals_db,          \* recipe database: meal_id -> recipe
    ingredient_details,\* catalog: ingredient name -> details
    config,            \* TaskConfig: enable_ingredient_rounding, diet_profiles
    plan,              \* the raw meal plan: scheduled_meals, shopping_trips
    meal_plan,         \* the expanded plan, mutated in place by the engine
    aggregated,        \* result of the last aggregation: name -> aggregate
    agg_order,         \* the key order of the aggregated dict
    trip_needs,        \* result of the last aggregation: name -> needs
    warnings,          \* sequence of rounding warnings
    calorie_delta_per_profile, \* profile -> accumulated calorie delta
    ingredients_per_trip,      \* Phase 5 output
    error,             \* "none" or the exception that ended the request
    hist,              \* snapshots of earlier stages, read by properties only
    nutrition_by_meal, \* result of the nutrition calculation
    peer               \* a second request on the same planner, while suspended

dvars == <<d_pc, d_unit_size, d_trip_needs, d_rounded_total, d_source, d_result>>
pvars == <<pc, meals_db, ingredient_details, config, plan, meal_plan, aggregated,
           agg_order, trip_needs, warnings, calorie_delta_per_profile, ingredients_per_trip,
           error, hist, nutrition_by_meal, peer>>
vars == <<dvars, pvars>>

----------------------------------------------------------------------------
(* Bounds of the model *)
MaxUnit == 4        \* largest package unit size
MaxNeed == 5        \* largest per-trip need handed to the distributor
MaxTrips == 3       \* longest trip_needs list handed to the distributor
MaxUnitsArg == 3    \* largest rounded_total / unit_size a caller passes

----------------------------------------------------------------------------
(* Arithmetic *)

Abs(x) == IF x < 0 THEN -x ELSE x

Max(a, b) == IF a >= b THEN a ELSE b

\* Python round(n / d) for integers n and d > 0: nearest integer, ties to even.
PyRound(n, d) ==
    LET q == n \div d
        r == n % d
    IN  IF 2 * r < d THEN q
        ELSE IF 2 * r > d THEN q + 1
        ELSE IF q % 2 = 0 THEN q ELSE q + 1

\* math.ceil(n / d) for integers n and d > 0.
PyCeil(n, d) == -((-n) \div d)

RECURSIVE SumSeq(_)
SumSeq(s) == IF s = <<>> THEN 0 ELSE Head(s) + SumSeq(Tail(s))

RECURSIVE Gcd(_, _)
Gcd(a, b) == IF b = 0 THEN Abs(a) ELSE Gcd(b, a % b)

----------------------------------------------------------------------------
(* Package Rounder: the rounded plan-wide total *)

\* The rounding without its one-unit floor.
RoundedTotalNoFloor(original_total, unit_size) ==
    PyRound(original_total, unit_size) * unit_size

\* rounded_total = max(unit_size, round(original_total / unit_size) * unit_size)
RoundedTotal(original_total, unit_size) ==
    Max(unit_size, PyRound(original_total, unit_size) * unit_size)

----------------------------------------------------------------------------
(* Trip Distributor *)

\* sorted(trip_needs, key=lambda x: x[0]): a stable insertion sort.
RECURSIVE InsertByIndex(_, _)
InsertByIndex(s, e) ==
    IF s = <<>> THEN <<e>>
    ELSE IF e[1] < Head(s)[1] THEN <<e>> \o s
    ELSE <<Head(s)>> \o InsertByIndex(Tail(s), e)

RECURSIVE SortByIndex(_)
SortByIndex(s) ==
    IF s = <<>> THEN <<>>
    ELSE InsertByIndex(SortByIndex(SubSeq(s, 1, Len(s) - 1)), s[Len(s)])

\* A loop pass that forgets the leftover: it buys for the whole need.
DistributeStepIgnoringLeftover(need, leftover, unit_size) ==
    LET units_to_buy == PyCeil(need, unit_size)
    IN  [units |-> units_to_buy,
         leftover |-> leftover + units_to_buy * unit_size - need]

\* One pass of the loop over the non-final trips: the units bought on trip i
\* and the leftover carried out of it.
DistributeStep(need, leftover, unit_size) ==
    IF leftover >= need
    THEN [units |-> 0, leftover |-> leftover - need]
    ELSE LET units_to_buy == PyCeil(need - leftover, unit_size)
         IN  [units |-> units_to_buy,
              leftover |-> leftover + units_to_buy * unit_size - need]

\* allocated_units and leftover after the first n non-final trips.
RECURSIVE DistributeLoop(_, _, _)
DistributeLoop(sorted, unit_size, n) ==
    IF n = 0 THEN [allocated_units |-> <<>>, leftover |-> 0]
    ELSE LET before == DistributeLoop(sorted, unit_size, n - 1)
             step == DistributeStep(sorted[n][2], before.leftover, unit_size)
         IN  [allocated_units |-> Append(before.allocated_units, step.units),
              leftover |-> step.leftover]

\* The distributor with the final trip treated like every other trip.
DistributeLastLikeOthers(rounded, unit_size, needs) ==
    IF needs = <<>> THEN <<>>
    ELSE LET trip_needs_sorted == SortByIndex(needs)
             num_trips == Len(trip_needs_sorted)
             loop == DistributeLoop(trip_needs_sorted, unit_size, num_trips)
         IN  [i \in 1..num_trips |-> loop.allocated_units[i] * unit_size]

distribute_rounded_quantity_across_trips(rounded, unit_size, needs) ==
    IF needs = <<>> THEN <<>>
    ELSE LET trip_needs_sorted == SortByIndex(needs)
             num_trips == Len(trip_needs_sorted)
             total_units == PyRound(rounded, unit_size)
             loop == DistributeLoop(trip_needs_sorted, unit_size, num_trips - 1)
             last_trip_units == total_units - SumSeq(loop.allocated_units)
             allocated_units == Append(loop.allocated_units, last_trip_units)
         IN  [i \in 1..num_trips |-> allocated_units[i] * unit_size]

----------------------------------------------------------------------------
(* Exact quotients: a Python float value n / d is the record [n, d], d > 0,
   in lowest terms. *)

Rat(n, d) ==
    LET g == Gcd(n, d)
    IN  IF n = 0 THEN [n |-> 0, d |-> 1] ELSE [n |-> n \div g, d |-> d \div g]

RatAdd(a, b) == Rat(a.n * b.d + b.n * a.d, a.d * b.d)

RatZero == [n |-> 0, d |-> 1]

----------------------------------------------------------------------------
(* Dictionaries: a Python dict is a function; d.get(k, default) is Get. *)

Get(f, k, default) == IF k \in DOMAIN f THEN f[k] ELSE default

EmptyDict == [k \in {} |-> 0]

\* The index set of a sequence as a sequence 1..n, and folds over it.
RECURSIVE SumOver(_, _)
\* sum(f[x] for x in s) for a sequence s of keys.
SumOver(f, s) == IF s = <<>> THEN 0 ELSE f[Head(s)] + SumOver(f, Tail(s))

RECURSIVE SumFn(_)
\* The sum of the values of a function with a finite domain.
SumFn(f) ==
    IF DOMAIN f = {} THEN 0
    ELSE LET x == CHOOSE x \in DOMAIN f : TRUE
         IN  f[x] + SumFn([y \in DOMAIN f \ {x} |-> f[y]])

RECURSIVE RatSumFn(_)
\* The sum of the values, exact quotients, of a function with a finite domain.
RatSumFn(f) ==
    IF DOMAIN f = {} THEN RatZero
    ELSE LET x == CHOOSE x \in DOMAIN f : TRUE
         IN  RatAdd(f[x], RatSumFn([y \in DOMAIN f \ {x} |-> f[y]]))

RECURSIVE Flatten(_)
\* The concatenation of a sequence of sequences.
Flatten(ss) == IF ss = <<>> THEN <<>> ELSE Head(ss) \o Flatten(Tail(ss))

RECURSIVE Distinct(_)
\* The distinct elements of a sequence, in order of first appearance: the key
\* order of a dict filled from it.
Distinct(s) ==
    IF s = <<>> THEN <<>>
    ELSE LET init == Distinct(SubSeq(s, 1, Len(s) - 1))
             last == s[Len(s)]
         IN  IF \E i \in 1..Len(init) : init[i] = last THEN init
             ELSE Append(init, last)

Range(s) == {s[i] : i \in 1..Len(s)}

----------------------------------------------------------------------------
(* Recipe Expander: MealPlanner.expand_meal_plan *)

\* self.config.diet_profiles.get(person, person)
ProfileOf(cfg, person) == Get(cfg.diet_profiles, person, person)

\* servings = {person: len(dates)}: the persons of a scheduled meal, in the
\* order of its eating_dates_per_person mapping.
PersonOrder == <<"John", "Jane">>

\* A person quantity that leaves out the serving multiplier.
PersonQtyWithoutMultiplier(recipe, base_ing, profile, num_servings) ==
    base_ing.quantity * num_servings

\* person_qty = round(base quantity * base_serving_size * num_servings); a
\* multiplier is an exact quotient, 1.0 when the profile is absent.
PersonQty(recipe, base_ing, profile, num_servings) ==
    LET base_serving_size == Get(recipe.base_servings, profile, [n |-> 1, d |-> 1])
    IN  PyRound(base_ing.quantity * base_serving_size.n * num_servings,
                base_serving_size.d)

\* The expanded ingredient of one recipe ingredient for one scheduled meal.
ExpandIngredient(cfg, recipe, base_ing, servings) ==
    LET eaters == {p \in DOMAIN servings : servings[p] > 0}
        per_person_data ==
            [p \in eaters |->
                [quantity |-> PersonQty(recipe, base_ing, cfg.diet_profiles[p],
                                        servings[p]),
                 portions |-> servings[p]]]
        present == SelectSeq(PersonOrder, LAMBDA p : p \in eaters)
        total_qty == SumOver([p \in eaters |-> per_person_data[p].quantity], present)
    IN  [name |-> base_ing.name, quantity |-> total_qty, per_person |-> per_person_data]

\* raise ValueError(f"Meal '{meal_id}' not found in database")
NotFoundError(meal_id) == "ValueError: Meal '" \o meal_id \o "' not found in database"

\* The KeyError of self.config.diet_profiles[person].
UnknownPersonError(person) == "KeyError: '" \o person \o "'"

\* The persons of a scheduled meal with at least one eating date and no diet
\* profile, in the order of the mapping.
UnmappedEaters(cfg, scheduled) ==
    SelectSeq(PersonOrder,
        LAMBDA p : /\ p \in DOMAIN scheduled.eating_dates_per_person
                   /\ scheduled.eating_dates_per_person[p] > 0
                   /\ p \notin DOMAIN cfg.diet_profiles)

\* The first failure of the expansion of one scheduled meal, or "none".
ExpandError(cfg, db, scheduled) ==
    IF scheduled.meal_id \notin DOMAIN db THEN NotFoundError(scheduled.meal_id)
    ELSE IF /\ db[scheduled.meal_id].ingredients # <<>>
            /\ UnmappedEaters(cfg, scheduled) # <<>>
         THEN UnknownPersonError(Head(UnmappedEaters(cfg, scheduled)))
    ELSE "none"

ExpandMeal(cfg, db, scheduled) ==
    LET recipe == db[scheduled.meal_id]
    IN  [id |-> scheduled.id,
         meal_id |-> scheduled.meal_id,
         name |-> recipe.name,
         eating_dates_per_person |-> scheduled.eating_dates_per_person,
         ingredients |->
             [j \in 1..Len(recipe.ingredients) |->
                 ExpandIngredient(cfg, recipe, recipe.ingredients[j],
                                  scheduled.eating_dates_per_person)]]

\* An expansion that skips the scheduled meals whose recipe is unknown and
\* returns the plan of the others.
ExpandSkippingUnknown(cfg, db, raw) ==
    LET known == SelectSeq(raw.scheduled_meals, LAMBDA m : m.meal_id \in DOMAIN db)
        n == Len(known)
        bad == {i \in 1..n : ExpandError(cfg, db, known[i]) # "none"}
    IN  IF bad # {}
        THEN [error |-> ExpandError(cfg, db, known[CHOOSE i \in bad : \A k \in bad : i <= k]),
              meal_plan |-> <<>>]
        ELSE [error |-> "none",
              meal_plan |->
                  [meals |-> [i \in 1..n |-> ExpandMeal(cfg, db, known[i])],
                   shopping_trips |-> raw.shopping_trips]]

\* The result of expand_meal_plan: the expanded plan, or the error raised at
\* the first scheduled meal that cannot be expanded (no plan is returned).
expand_meal_plan(cfg, db, raw) ==
    LET n == Len(raw.scheduled_meals)
        bad == {i \in 1..n : ExpandError(cfg, db, raw.scheduled_meals[i]) # "none"}
    IN  IF bad # {}
        THEN [error |-> ExpandError(cfg, db,
                            raw.scheduled_meals[CHOOSE i \in bad : \A k \in bad : i <= k]),
              meal_plan |-> <<>>]
        ELSE [error |-> "none",
              meal_plan |->
                  [meals |-> [i \in 1..n |-> ExpandMeal(cfg, db, raw.scheduled_meals[i])],
                   shopping_trips |-> raw.shopping_trips]]

----------------------------------------------------------------------------
(* Plan-Level Aggregator: MealPlanner.aggregate_ingredients_across_trips *)

\* meals_by_id.get(id): the meal with that id (the last one, as in a dict
\* comprehension), or <<>> when there is none.
MealIndex(mp, id) ==
    LET hits == {i \in 1..Len(mp.meals) : mp.meals[i].id = id}
    IN  IF hits = {} THEN 0 ELSE CHOOSE i \in hits : \A k \in hits : k <= i

\* A shopping trip is the sequence of its scheduled_meal_ids.  The trips the
\* aggregator walks: the declared ones, or one virtual trip with every meal.
EffectiveTrips(mp) ==
    IF mp.shopping_trips = <<>>
    THEN << [i \in 1..Len(mp.meals) |-> mp.meals[i].id] >>
    ELSE mp.shopping_trips

\* The meals of a trip that exist, in the trip's order, as indices into meals.
TripMealIndices(mp, trip) ==
    LET idx == [i \in 1..Len(trip) |-> MealIndex(mp, trip[i])]
    IN  SelectSeq(idx, LAMBDA k : k > 0)

\* Every ingredient entry the trip's meals hold, in iteration order.
TripIngredients(mp, trip) ==
    LET ms == TripMealIndices(mp, trip)
    IN  Flatten([i \in 1..Len(ms) |-> mp.meals[ms[i]].ingredients])

\* An accumulation in which a later entry replaces the earlier ones.
AccumulateLastWins(ings, name) ==
    LET mine == SelectSeq(ings, LAMBDA ing : ing.name = name)
        last == mine[Len(mine)]
    IN  [quantity |-> last.quantity, per_person |-> last.per_person]

\* The accumulation of a list of ingredient entries under one name.
Accumulate(ings, name) ==
    LET mine == SelectSeq(ings, LAMBDA ing : ing.name = name)
        people == UNION {DOMAIN mine[i].per_person : i \in 1..Len(mine)}
    IN  [quantity |-> SumSeq([i \in 1..Len(mine) |-> mine[i].quantity]),
         per_person |->
             [p \in people |->
                 LET has == SelectSeq(mine, LAMBDA ing : p \in DOMAIN ing.per_person)
                 IN  [quantity |->
                          SumSeq([i \in 1..Len(has) |-> has[i].per_person[p].quantity]),
                      portions |->
                          SumSeq([i \in 1..Len(has) |-> has[i].per_person[p].portions])]]]

NamesOf(ings) == Distinct([i \in 1..Len(ings) |-> ings[i].name])

\* The aggregator proper: the plan-wide aggregates (with the key order of the
\* dict) and the per-trip needs.
aggregate_ingredients_across_trips(mp) ==
    LET shopping_trips == EffectiveTrips(mp)
        T == Len(shopping_trips)
        per_trip == [t \in 1..T |-> TripIngredients(mp, shopping_trips[t])]
        all == Flatten(per_trip)
        order == NamesOf(all)
        names == Range(order)
    IN  [order |-> order,
         aggregated |->
             [name \in names |->
                 LET acc == Accumulate(all, name)
                 IN  [total_qty |-> acc.quantity, per_person_totals |-> acc.per_person]],
         trip_needs |->
             [name \in names |->
                 LET with == SelectSeq([t \in 1..T |-> t],
                                 LAMBDA t : \E i \in 1..Len(per_trip[t]) :
                                                per_trip[t][i].name = name)
                 IN  [i \in 1..Len(with) |->
                         <<with[i] - 1, Accumulate(per_trip[with[i]], name).quantity>>]]]

----------------------------------------------------------------------------
(* Warning Generator: rounding_warnings.generate_rounding_warning *)

\* The largest number of extra portions tried per meal (range(1, 10)) and for
\* all meals together (range(1, 6)), and the largest per-meal suggestion
\* that is still listed.
MaxMealIncrease == 9
MaxCombinedIncrease == 5
MaxPracticalIncrease == 5

\* current_portions = sum(len(dates) for dates in eating_dates_per_person.values())
CurrentPortions(meal) ==
    LET e == meal.eating_dates_per_person
        ps == SelectSeq(PersonOrder, LAMBDA p : p \in DOMAIN e)
    IN  SumOver(e, ps)

\* next(ing for ing in meal["ingredients"] if ing["name"] == ingredient_name)
FirstIngredient(meal, name) ==
    LET hits == {j \in 1..Len(meal.ingredients) : meal.ingredients[j].name = name}
    IN  meal.ingredients[CHOOSE j \in hits : \A k \in hits : j <= k]

\* qty_per_portion as an exact quotient.
QtyPerPortion(meal, name) ==
    LET cp == CurrentPortions(meal)
        meal_qty == FirstIngredient(meal, name).quantity
    IN  IF cp > 0 THEN [n |-> meal_qty, d |-> cp] ELSE [n |-> meal_qty, d |-> 1]

\* abs(rounded - total) / total <= limit, for a total t.n / t.d other than 0
\* and limit = lim.n / lim.d, where rounded = round(total / unit_size) *
\* unit_size.  (A negative total makes the quotient negative.)
WithinError(t, unit_size, lim) ==
    LET rounded == PyRound(t.n, t.d * unit_size) * unit_size
    IN  t.n < 0 \/ Abs(rounded * t.d - t.n) * lim.d <= lim.n * t.n

\* The marker of a search that divided by zero.
DivisionByZero == "ZeroDivisionError"

\* A per-meal search that accepts a relative error of up to 0.5.
SuggestedAdditionalLoose(meal, name, unit_size) ==
    LET cp == CurrentPortions(meal)
        qpp == QtyPerPortion(meal, name)
        test_total(add) == [n |-> (cp + add) * qpp.n, d |-> qpp.d]
        good == {add \in 1..MaxMealIncrease :
                    WithinError(test_total(add), unit_size, [n |-> 1, d |-> 2])}
    IN  IF qpp.n = 0 THEN [raised |-> TRUE, value |-> 0]
        ELSE IF good = {} THEN [raised |-> FALSE, value |-> 0]
        ELSE [raised |-> FALSE, value |-> CHOOSE add \in good : \A k \in good : add <= k]

\* The per-meal search: the first add_portions in 1..9 whose test_total is
\* rounded with a relative error of at most 0.3, else 0.  The result is
\* [raised, value]: the search raises ZeroDivisionError when test_total is 0.
SuggestedAdditional(meal, name, unit_size) ==
    LET cp == CurrentPortions(meal)
        qpp == QtyPerPortion(meal, name)
        test_total(add) == [n |-> (cp + add) * qpp.n, d |-> qpp.d]
        good == {add \in 1..MaxMealIncrease :
                    WithinError(test_total(add), unit_size, [n |-> 3, d |-> 10])}
    IN  IF qpp.n = 0 THEN [raised |-> TRUE, value |-> 0]
        ELSE IF good = {} THEN [raised |-> FALSE, value |-> 0]
        ELSE [raised |-> FALSE, value |-> CHOOSE add \in good : \A k \in good : add <= k]

RECURSIVE RatSum(_)
RatSum(s) == IF s = <<>> THEN RatZero ELSE RatAdd(Head(s), RatSum(Tail(s)))

\* The combined search over all meals that use the ingredient: the first
\* add_portions in 1..5 whose new_total is rounded with a relative error of
\* at most 0.5, else 0; it raises ZeroDivisionError when it meets a new_total
\* of 0.
CombinedIncrease(using, name, unit_size) ==
    LET new_total(add) ==
            RatSum([i \in 1..Len(using) |->
                LET qpp == QtyPerPortion(using[i], name)
                IN  Rat((CurrentPortions(using[i]) + add) * qpp.n, qpp.d)])
        stop == {add \in 1..MaxCombinedIncrease :
                    \/ new_total(add).n = 0
                    \/ WithinError(new_total(add), unit_size, [n |-> 1, d |-> 2])}
        first == CHOOSE add \in stop : \A k \in stop : add <= k
    IN  IF Len(using) > 1 /\ stop # {}
        THEN [raised |-> new_total(first).n = 0, value |-> first]
        ELSE [raised |-> FALSE, value |-> 0]

\* A filter that keeps only the meals for which an increase was found.
FoundMealInfo(meal_info) ==
    SelectSeq(meal_info,
        LAMBDA m : /\ m.suggested_additional_portions > 0
                   /\ m.suggested_additional_portions <= MaxPracticalIncrease)

\* A filter that lets every meal through.
EveryMealInfo(meal_info) == meal_info

\* practical_meal_info: the meals whose suggestion is 1..5, and those with
\* suggestion 0 (no solution found); a suggestion of 6..9 is dropped.
PracticalMealInfo(meal_info) ==
    SelectSeq(meal_info,
        LAMBDA m : \/ /\ m.suggested_additional_portions > 0
                      /\ m.suggested_additional_portions <= MaxPracticalIncrease
                   \/ m.suggested_additional_portions = 0)

\* The function's result [status, warning]: status "None" (no warning),
\* "ZeroDivisionError" (the call raised) or "warning".
generate_rounding_warning(ingredient_name, original_total, rounded_total, unit_size, mp) ==
    IF original_total = 0 THEN [status |-> "None"]
    ELSE IF original_total < 0 \/ 2 * Abs(rounded_total - original_total) <= original_total
         THEN [status |-> "None"]
    ELSE
        LET using == SelectSeq(mp.meals,
                        LAMBDA meal : \E j \in 1..Len(meal.ingredients) :
                                          meal.ingredients[j].name = ingredient_name)
            suggested == [i \in 1..Len(using) |->
                             SuggestedAdditional(using[i], ingredient_name, unit_size)]
            meal_info ==
                [i \in 1..Len(using) |->
                    [meal_name |-> using[i].name,
                     current_portions |-> CurrentPortions(using[i]),
                     suggested_additional_portions |-> suggested[i].value]]
            practical_meal_info == PracticalMealInfo(meal_info)
            combined_increase == CombinedIncrease(using, ingredient_name, unit_size)
        IN  IF \/ \E i \in 1..Len(using) : suggested[i].raised
               \/ combined_increase.raised
            THEN [status |-> DivisionByZero]
            ELSE [status |-> "warning",
                  warning |->
                     [ingredient_name |-> ingredient_name,
                      original_quantity |-> original_total,
                      rounded_quantity |-> rounded_total,
                      percent_change |->
                          Rat(Abs(rounded_total - original_total), original_total),
                      meals |-> practical_meal_info,
                      combined_increase |-> combined_increase.value,
                      unit_size |-> unit_size]]

----------------------------------------------------------------------------
(* Catalog lookups *)

\* self.ingredient_details.get(name, {}).get("unit_size"), 0 standing for an
\* absent, None or zero unit size (all falsy).
UnitSizeOf(details, name) ==
    IF name \in DOMAIN details /\ "unit_size" \in DOMAIN details[name]
    THEN details[name].unit_size ELSE 0

\* details.get("calories_per_100g", 0)
CaloriesOf(details, name) ==
    IF name \in DOMAIN details THEN details[name].calories_per_100g ELSE 0

\* details.get("adjustable", True) and not details.get("unit_size")
IsAdjustable(details, name) ==
    /\ IF name \in DOMAIN details /\ "adjustable" \in DOMAIN details[name]
       THEN details[name].adjustable ELSE TRUE
    /\ UnitSizeOf(details, name) = 0

----------------------------------------------------------------------------
(* Package Rounder and write-back of the distributed quantities:
   round_and_distribute_ingredients, Phases 2 and 3, for one ingredient *)

\* The calorie delta the rounding of one ingredient adds to each profile.
RoundingDelta(cfg, details, name, agg, rounded_total) ==
    LET original_total == agg.total_qty
        calories_per_100 == CaloriesOf(details, name)
        delta_qty == rounded_total - original_total
        people == SelectSeq(PersonOrder, LAMBDA p : p \in DOMAIN agg.per_person_totals)
        profiles == {ProfileOf(cfg, people[i]) : i \in 1..Len(people)}
        person_delta_cal(p) ==
            IF original_total > 0
            THEN Rat(delta_qty * agg.per_person_totals[p].quantity * calories_per_100,
                     original_total * 100)
            ELSE RatZero
    IN  [prof \in profiles |->
            LET mine == SelectSeq(people, LAMBDA p : ProfileOf(cfg, p) = prof)
            IN  RatSum([i \in 1..Len(mine) |-> person_delta_cal(mine[i])])]

\* An ingredient entry rescaled to meal_new_qty: the new total and the
\* per-person quantities round(meal_new_qty * person quantity / old total).
Rescale(ing, meal_new_qty) ==
    LET meal_original_qty == ing.quantity
    IN  [ing EXCEPT
            !.quantity = meal_new_qty,
            !.per_person =
                [p \in DOMAIN ing.per_person |->
                    [ing.per_person[p] EXCEPT !.quantity =
                        IF meal_original_qty > 0
                        THEN PyRound(meal_new_qty * ing.per_person[p].quantity,
                                     meal_original_qty)
                        ELSE 0]]]

\* trip_original_total as the code computes it inside the loop: the sum of
\* the quantities the trip's meals hold for the ingredient right now.
TripCurrentTotal(meals, trip, name) ==
    LET mp == [meals |-> meals]
    IN  Accumulate(TripIngredients(mp, trip), name).quantity

\* The loop body for ingredient entry j of meal k in a trip that was
\* allotted dist_qty.
WriteBackEntry(meals, trip, k, j, name, dist_qty) ==
    LET ing == meals[k].ingredients[j]
        meal_original_qty == ing.quantity
        trip_original_total == TripCurrentTotal(meals, trip, name)
    IN  IF ing.name = name /\ trip_original_total > 0
        THEN [meals EXCEPT ![k].ingredients[j] =
                 Rescale(ing, PyRound(dist_qty * meal_original_qty, trip_original_total))]
        ELSE meals

\* for ing in meal["ingredients"]: entries 1..j of meal k.
RECURSIVE WriteBackMeal(_, _, _, _, _, _)
WriteBackMeal(meals, trip, k, j, name, dist_qty) ==
    IF j = 0 THEN meals
    ELSE WriteBackEntry(WriteBackMeal(meals, trip, k, j - 1, name, dist_qty),
                        trip, k, j, name, dist_qty)

\* for scheduled_meal_id in trip["scheduled_meal_ids"]: positions 1..i.
RECURSIVE WriteBackTrip(_, _, _, _, _)
WriteBackTrip(meals, trip, i, name, dist_qty) ==
    IF i = 0 THEN meals
    ELSE LET before == WriteBackTrip(meals, trip, i - 1, name, dist_qty)
             k == MealIndex([meals |-> meals], trip[i])
         IN  IF k = 0 THEN before
             ELSE WriteBackMeal(before, trip, k, Len(before[k].ingredients),
                                name, dist_qty)

\* for (trip_index, _), dist_qty in zip(sorted_trip_needs, distributed): the
\* first n pairs.
RECURSIVE WriteBackTrips(_, _, _, _, _, _)
WriteBackTrips(meals, trips, sorted_needs, distributed, n, name) ==
    IF n = 0 THEN meals
    ELSE LET before == WriteBackTrips(meals, trips, sorted_needs, distributed,
                                      n - 1, name)
             trip == trips[sorted_needs[n][1] + 1]
         IN  WriteBackTrip(before, trip, Len(trip), name, distributed[n])

\* The branch for a plan without shopping trips: every meal's entry gets its
\* share of rounded_total by its share of original_total.
WriteBackNoTrips(meals, name, original_total, rounded_total) ==
    [k \in 1..Len(meals) |->
        [meals[k] EXCEPT !.ingredients =
            [j \in 1..Len(meals[k].ingredients) |->
                LET ing == meals[k].ingredients[j]
                IN  IF ing.name = name /\ original_total > 0
                    THEN Rescale(ing, PyRound(rounded_total * ing.quantity,
                                              original_total))
                    ELSE ing]]]

\* Phase 3 for one rounded ingredient.
ApplyRounded(mp, needs, name, original_total, rounded_total, unit_size) ==
    IF mp.shopping_trips # <<>> /\ name \in DOMAIN needs
    THEN LET distributed == distribute_rounded_quantity_across_trips(
                                rounded_total, unit_size, needs[name])
             sorted_needs == SortByIndex(needs[name])
         IN  [mp EXCEPT !.meals =
                 WriteBackTrips(mp.meals, mp.shopping_trips, sorted_needs,
                                distributed, Len(sorted_needs), name)]
    ELSE [mp EXCEPT !.meals =
             WriteBackNoTrips(mp.meals, name, original_total, rounded_total)]

\* An accumulation in which the delta of a later ingredient replaces the
\* delta the profile had.
AddDeltasLastWins(a, b) ==
    [prof \in DOMAIN a \cup DOMAIN b |->
        IF prof \in DOMAIN b THEN b[prof] ELSE a[prof]]

\* Profile-wise sum of two delta dictionaries (defaultdict(float) +=).
AddDeltas(a, b) ==
    [prof \in DOMAIN a \cup DOMAIN b |->
        RatAdd(Get(a, prof, RatZero), Get(b, prof, RatZero))]

\* The state the rounding loop carries from one ingredient to the next, and
\* one pass of the loop for ingredient `name`.
RoundOne(cfg, details, needs, st, name) ==
    LET unit_size == UnitSizeOf(details, name)
        agg == st.aggregated[name]
        original_total == agg.total_qty
        rounded_total == RoundedTotal(original_total, unit_size)
        warning == generate_rounding_warning(name, original_total, rounded_total,
                                             unit_size, st.meal_plan)
    IN  IF st.error # "none" \/ unit_size = 0 THEN st
        ELSE IF warning.status = DivisionByZero
        THEN [st EXCEPT !.error = DivisionByZero]
        ELSE [meal_plan |-> ApplyRounded(st.meal_plan, needs, name, original_total,
                                         rounded_total, unit_size),
              aggregated |-> [st.aggregated EXCEPT ![name].total_qty = rounded_total],
              warnings |-> IF warning.status = "None" THEN st.warnings
                           ELSE Append(st.warnings, warning.warning),
              delta |-> AddDeltas(st.delta,
                            RoundingDelta(cfg, details, name, agg, rounded_total)),
              error |-> "none"]

\* for ing_name, ing_data in aggregated.items(): the first n ingredients.
RECURSIVE RoundLoop(_, _, _, _, _, _)
RoundLoop(cfg, details, needs, order, st, n) ==
    IF n = 0 THEN st
    ELSE RoundOne(cfg, details, needs,
                  RoundLoop(cfg, details, needs, order, st, n - 1), order[n])

----------------------------------------------------------------------------
(* Calorie Compensator: MealPlanner.compensate_calories_per_profile *)

\* The threshold of Phase 4, 0.1 kcal, as the quotient 1 / CompensationEpsilonInverse.
CompensationEpsilonInverse == 10

\* A test that asks for compensation as soon as some delta is not 0.
NeedsCompensationAnyDelta(delta) ==
    \E prof \in DOMAIN delta : delta[prof].n # 0

\* any(abs(delta) > 0.1 for delta in calorie_delta_per_profile.values())
NeedsCompensation(delta) ==
    \E prof \in DOMAIN delta :
        CompensationEpsilonInverse * Abs(delta[prof].n) > delta[prof].d

\* adjustable_ingredients, in the key order of aggregated.
AdjustableIngredients(details, order) ==
    SelectSeq(order, LAMBDA name : IsAdjustable(details, name))

\* adjustable_calories_per_profile[profile] * 100: the calories the
\* adjustable ingredients give the profile, in hundredths of a kcal.
AdjustableCalories100(cfg, details, agg, order, prof) ==
    LET adj == AdjustableIngredients(details, order)
        of(name) ==
            LET ppt == agg[name].per_person_totals
                mine == SelectSeq(PersonOrder,
                            LAMBDA p : p \in DOMAIN ppt /\ ProfileOf(cfg, p) = prof)
            IN  SumSeq([i \in 1..Len(mine) |-> ppt[mine[i]].quantity])
                    * CaloriesOf(details, name)
    IN  SumSeq([i \in 1..Len(adj) |-> of(adj[i])])

\* The factor with the delta added instead of taken away.
AdjustmentFactorAddsDelta(cfg, details, agg, order, delta, prof) ==
    LET a100 == AdjustableCalories100(cfg, details, agg, order, prof)
    IN  IF prof \in DOMAIN delta /\ a100 > 0
        THEN [n |-> a100 * delta[prof].d + 100 * delta[prof].n,
              d |-> a100 * delta[prof].d]
        ELSE [n |-> 1, d |-> 1]

\* adjustment_factors.get(profile, 1.0) as an exact quotient:
\* (adjustable - delta) / adjustable, or 1.0 when adjustable is not positive
\* or the profile has no delta.
AdjustmentFactor(cfg, details, agg, order, delta, prof) ==
    LET a100 == AdjustableCalories100(cfg, details, agg, order, prof)
    IN  IF prof \in DOMAIN delta /\ a100 > 0
        THEN [n |-> a100 * delta[prof].d - 100 * delta[prof].n,
              d |-> a100 * delta[prof].d]
        ELSE [n |-> 1, d |-> 1]

\* The adjustment applied to every entry of the meal, adjustable or not.
AdjustEveryIngredient(cfg, details, agg, order, delta, meal) ==
    [meal EXCEPT !.ingredients =
        [j \in 1..Len(meal.ingredients) |->
            LET ing == meal.ingredients[j]
                scaled ==
                    [p \in DOMAIN ing.per_person |->
                        LET f == AdjustmentFactor(cfg, details, agg, order, delta,
                                                  ProfileOf(cfg, p))
                        IN  [ing.per_person[p] EXCEPT !.quantity =
                                PyRound(ing.per_person[p].quantity * f.n, f.d)]]
                people == SelectSeq(PersonOrder, LAMBDA p : p \in DOMAIN scaled)
            IN  [ing EXCEPT
                    !.per_person = scaled,
                    !.quantity = SumSeq([i \in 1..Len(people) |->
                                            scaled[people[i]].quantity])]]]

\* One adjustment of a meal: every adjustable entry's per-person quantity is
\* scaled and rounded, and the entry's total recomputed as their sum.
AdjustMeal(cfg, details, agg, order, delta, meal) ==
    [meal EXCEPT !.ingredients =
        [j \in 1..Len(meal.ingredients) |->
            LET ing == meal.ingredients[j]
                scaled ==
                    [p \in DOMAIN ing.per_person |->
                        LET f == AdjustmentFactor(cfg, details, agg, order, delta,
                                                  ProfileOf(cfg, p))
                        IN  [ing.per_person[p] EXCEPT !.quantity =
                                PyRound(ing.per_person[p].quantity * f.n, f.d)]]
                people == SelectSeq(PersonOrder, LAMBDA p : p \in DOMAIN scaled)
            IN  IF \E i \in 1..Len(order) : order[i] = ing.name /\ IsAdjustable(details, ing.name)
                THEN [ing EXCEPT
                        !.per_person = scaled,
                        !.quantity = SumSeq([i \in 1..Len(people) |->
                                                scaled[people[i]].quantity])]
                ELSE ing]]

\* meals_to_process: the meals of the trips, one entry per listing, or all
\* meals when the plan declares no trips; as indices into meals.
MealsToProcess(mp) ==
    IF mp.shopping_trips # <<>>
    THEN Flatten([t \in 1..Len(mp.shopping_trips) |->
                     TripMealIndices(mp, mp.shopping_trips[t])])
    ELSE [i \in 1..Len(mp.meals) |-> i]

\* for meal in meals_to_process: the first n entries.
RECURSIVE AdjustMeals(_, _, _, _, _, _, _, _)
AdjustMeals(cfg, details, agg, order, delta, meals, todo, n) ==
    IF n = 0 THEN meals
    ELSE LET before == AdjustMeals(cfg, details, agg, order, delta, meals, todo, n - 1)
         IN  [before EXCEPT ![todo[n]] =
                 AdjustMeal(cfg, details, agg, order, delta, before[todo[n]])]

\* The meal plan after compensate_calories_per_profile.
compensate_calories_per_profile(cfg, details, agg, order, delta, mp) ==
    IF AdjustableIngredients(details, order) = <<>> THEN mp
    ELSE LET todo == MealsToProcess(mp)
         IN  [mp EXCEPT !.meals =
                 AdjustMeals(cfg, details, agg, order, delta, mp.meals, todo, Len(todo))]

----------------------------------------------------------------------------
(* Meal calories per diet profile: MealPlanner.calculate_meal_calories *)

\* The calories one ingredient entry gives the persons of a profile:
\* sum of (quantity / 100.0) * calories_per_100g.
EntryCalories(cfg, details, ing, prof) ==
    LET mine == SelectSeq(PersonOrder,
                    LAMBDA p : p \in DOMAIN ing.per_person /\ ProfileOf(cfg, p) = prof)
    IN  RatSum([i \in 1..Len(mine) |->
                   Rat(ing.per_person[mine[i]].quantity * CaloriesOf(details, ing.name),
                       100)])

\* profile_totals before the final round().
MealCaloriesExact(cfg, details, meal, prof) ==
    RatSum([j \in 1..Len(meal.ingredients) |->
               EntryCalories(cfg, details, meal.ingredients[j], prof)])

\* round(total) of a float total whose exact value is the quotient: the
\* nearest integer, and at an exact tie either neighbour, since the error
\* the float sum has accumulated decides which way round() goes (the exact
\* 24.5 of 7 units at 350 kcal is the float 24.500000000000004).
RoundFloat(total) ==
    IF 2 * (total.n % total.d) = total.d
    THEN {total.n \div total.d, total.n \div total.d + 1}
    ELSE {PyRound(total.n, total.d)}

\* The dictionaries {profile: round(total)} the call can return, over the
\* profiles of the persons of the meal; {} when the catalog is empty or the
\* meal has no person.
calculate_meal_calories(cfg, details, meal) ==
    LET people == UNION {DOMAIN meal.ingredients[j].per_person :
                            j \in 1..Len(meal.ingredients)}
        profiles == {ProfileOf(cfg, p) : p \in people}
        rounded == [prof \in profiles |->
                       RoundFloat(MealCaloriesExact(cfg, details, meal, prof))]
    IN  IF DOMAIN details = {} \/ people = {} THEN {EmptyDict}
        ELSE {r \in [profiles -> UNION {rounded[prof] : prof \in profiles}] :
                 \A prof \in profiles : r[prof] \in rounded[prof]}

----------------------------------------------------------------------------
(* The configuration switch of phase 2 *)

\* A switch that is always on.
RoundingAlwaysEnabled(cfg) == TRUE

\* self.config.enable_ingredient_rounding: rounding is performed only when
\* the configuration enables it.
RoundingEnabled(cfg) == cfg.enable_ingredient_rounding

----------------------------------------------------------------------------
(* Phase 5: the per-trip ingredient lists *)

BuildIngredientsPerTrip(mp) ==
    [t \in 1..Len(mp.shopping_trips) |->
        LET ings == TripIngredients(mp, mp.shopping_trips[t])
            order == NamesOf(ings)
        IN  [i \in 1..Len(order) |->
                LET acc == Accumulate(ings, order[i])
                IN  [name |-> order[i], quantity |-> acc.quantity,
                     per_person |-> acc.per_person]]]

----------------------------------------------------------------------------
(* round_and_distribute_ingredients as a whole, for properties that compare
   two requests *)

\* What the call returns, given the state after phases 2 and 3 and the plan
\* after phase 4.
RoundAndDistributeReturn(st1, mp2) ==
    IF st1.error # "none"
    THEN [error |-> st1.error, meal_plan |-> st1.meal_plan]
    ELSE [error |-> "none",
          meal_plan |-> mp2,
          ingredients_per_trip |-> BuildIngredientsPerTrip(mp2),
          warnings |-> st1.warnings,
          calorie_adjustments |-> st1.delta]

\* Phase 4 and the return, given the aggregation and the state after phases
\* 2 and 3.
RoundAndDistributeRounded(cfg, details, agg1, st1) ==
    RoundAndDistributeReturn(st1,
        IF RoundingEnabled(cfg) /\ NeedsCompensation(st1.delta)
        THEN compensate_calories_per_profile(cfg, details, st1.aggregated,
                 agg1.order, st1.delta, st1.meal_plan)
        ELSE st1.meal_plan)

\* Phases 2 to 5, given the aggregation of phase 1 and the state st0 it
\* starts the rounding from.
RoundAndDistributeAggregated(cfg, details, agg1, st0) ==
    RoundAndDistributeRounded(cfg, details, agg1,
        IF RoundingEnabled(cfg)
        THEN RoundLoop(cfg, details, agg1.trip_needs, agg1.order, st0, Len(agg1.order))
        ELSE st0)

\* Phases 2 to 5 on the plan mp, given the aggregation of phase 1.
RoundAndDistributeFrom(cfg, details, mp, agg1) ==
    RoundAndDistributeAggregated(cfg, details, agg1,
        [meal_plan |-> mp, aggregated |-> agg1.aggregated, warnings |-> <<>>,
         delta |-> EmptyDict, error |-> "none"])

RoundAndDistribute(cfg, details, mp) ==
    RoundAndDistributeFrom(cfg, details, mp, aggregate_ingredients_across_trips(mp))

----------------------------------------------------------------------------
(* Nutrition per diet profile: MealPlanner.calculate_meal_nutrition and
   MealPlanner.calculate_meal_plan_nutrition *)

RECURSIVE DictsOver(_)
\* The dictionaries that give every key of c one of the values c[key]: the
\* results a computation can have whose entries each have several possible
\* readings.
DictsOver(c) ==
    IF DOMAIN c = {} THEN {EmptyDict}
    ELSE LET k == CHOOSE k \in DOMAIN c : TRUE
             rest == DictsOver([x \in DOMAIN c \ {k} |-> c[x]])
         IN  {(k :> v) @@ r : v \in c[k], r \in rest}

\* self.ingredient_details.get(name, {}).get(field, 0)
NutrientOf(details, name, field) ==
    IF name \in DOMAIN details /\ field \in DOMAIN details[name]
    THEN details[name][field]
    ELSE 0

\* What one ingredient entry adds to a total of the profile:
\* sum of (quantity / 100.0) * field value per 100g.
EntryNutrient(cfg, details, ing, prof, field) ==
    LET mine == SelectSeq(PersonOrder,
                    LAMBDA p : p \in DOMAIN ing.per_person /\ ProfileOf(cfg, p) = prof)
    IN  RatSum([i \in 1..Len(mine) |->
                   Rat(ing.per_person[mine[i]].quantity * NutrientOf(details, ing.name, field),
                       100)])

\* profile_nutrition[profile][...] before the final rounding.
MealNutrientExact(cfg, details, meal, prof, field) ==
    RatSum([j \in 1..Len(meal.ingredients) |->
               EntryNutrient(cfg, details, meal.ingredients[j], prof, field)])

\* round(total, 1) as an exact quotient of tenths; at an exact tie either
\* neighbour, as for round(total).
RoundFloatTenths(total) ==
    {Rat(t, 10) : t \in RoundFloat(Rat(10 * total.n, total.d))}

\* The dictionaries {profile: {calories, fat, protein, carbs}} the call can
\* return; {} when the catalog is empty or the meal has no person.  An
\* ingredient without catalog entry, or an entry without a field, counts 0.
calculate_meal_nutrition(cfg, details, meal) ==
    LET people == UNION {DOMAIN meal.ingredients[j].per_person :
                            j \in 1..Len(meal.ingredients)}
        profiles == {ProfileOf(cfg, p) : p \in people}
        exact(prof, field) == MealNutrientExact(cfg, details, meal, prof, field)
        options(prof) ==
            [calories : RoundFloat(exact(prof, "calories_per_100g")),
             fat : RoundFloatTenths(exact(prof, "fat_per_100g")),
             protein : RoundFloatTenths(exact(prof, "protein_per_100g")),
             carbs : RoundFloatTenths(exact(prof, "carbs_per_100g"))]
    IN  IF DOMAIN details = {} \/ people = {} THEN {EmptyDict}
        ELSE DictsOver([prof \in profiles |-> options(prof)])

\* Step 3 of the plan-level call: the dictionaries {meal id: nutrition} it
\* can build, a later meal replacing an earlier one with the same id.
NutritionOfMeals(cfg, details, meals) ==
    LET ids == {meals[k].id : k \in 1..Len(meals)}
        last(id) == CHOOSE k \in 1..Len(meals) :
                        /\ meals[k].id = id
                        /\ \A m \in 1..Len(meals) : meals[m].id = id => m <= k
    IN  DictsOver([id \in ids |->
                      calculate_meal_nutrition(cfg, details, meals[last(id)])])

\* A plan-level call that reports the nutrition of the meals as expansion
\* produced them, and rounds and compensates afterwards.
NutritionBeforeCompensation(cfg, db, details, raw, apply_rounding) ==
    UNION {
        IF expanded.error # "none"
        THEN {[error |-> expanded.error, nutrition_by_meal |-> <<>>]}
        ELSE UNION {
            IF rounded.error # "none"
            THEN {[error |-> rounded.error, nutrition_by_meal |-> <<>>]}
            ELSE {[error |-> "none", nutrition_by_meal |-> f] :
                     f \in NutritionOfMeals(cfg, details, expanded.meal_plan.meals)} :
            rounded \in {IF apply_rounding /\ cfg.enable_ingredient_rounding
                         THEN RoundAndDistribute(cfg, details, expanded.meal_plan)
                         ELSE [error |-> "none", meal_plan |-> expanded.meal_plan]}} :
        expanded \in {expand_meal_plan(cfg, db, raw)}}

\* The results [error, nutrition_by_meal] the plan-level call can have:
\* expansion, rounding when asked for and enabled, then the nutrition of
\* every meal under its id; an exception of a step ends the call.
calculate_meal_plan_nutrition(cfg, db, details, raw, apply_rounding) ==
    UNION {
        IF expanded.error # "none"
        THEN {[error |-> expanded.error, nutrition_by_meal |-> <<>>]}
        ELSE UNION {
            IF rounded.error # "none"
            THEN {[error |-> rounded.error, nutrition_by_meal |-> <<>>]}
            ELSE {[error |-> "none", nutrition_by_meal |-> f] :
                     f \in NutritionOfMeals(cfg, details, rounded.meal_plan.meals)} :
            rounded \in {IF apply_rounding /\ cfg.enable_ingredient_rounding
                         THEN RoundAndDistribute(cfg, details, expanded.meal_plan)
                         ELSE [error |-> "none", meal_plan |-> expanded.meal_plan]}} :
        expanded \in {expand_meal_plan(cfg, db, raw)}}

----------------------------------------------------------------------------
(* Specification of one distributor call *)

NeedValues == (-1)..MaxNeed

\* The trip indices of a list of n needs: in trip order, or in reverse.
IndexOrders(n) == {[i \in 1..n |-> i - 1], [i \in 1..n |-> n - i]}

NeedLists ==
    UNION {{[i \in 1..n |-> <<ord[i], q[i]>>] :
                ord \in IndexOrders(n), q \in [1..n -> NeedValues]} :
           n \in 1..MaxTrips}

NeedsOf(needs) == [i \in 1..Len(needs) |-> needs[i][2]]

\* No second request shares the planner.
NoPeer == [active |-> 0]

PipelineIdle ==
    /\ pc = "idle"
    /\ meals_db = <<>>
    /\ ingredient_details = <<>>
    /\ config = <<>>
    /\ plan = <<>>
    /\ meal_plan = <<>>
    /\ aggregated = <<>>
    /\ agg_order = <<>>
    /\ trip_needs = <<>>
    /\ warnings = <<>>
    /\ calorie_delta_per_profile = <<>>
    /\ ingredients_per_trip = <<>>
    /\ error = "none"
    /\ hist = <<>>
    /\ nutrition_by_meal = <<>>
    /\ peer = NoPeer

DistInit ==
    /\ d_pc = "args"
    /\ d_unit_size \in 1..MaxUnit
    /\ d_trip_needs \in NeedLists
    /\ d_rounded_total = 0
    /\ d_source = "none"
    /\ d_result = <<>>
    /\ PipelineIdle

\* The Package Rounder computes rounded_total from the plan-wide total, which
\* is the sum of the trip needs (round_and_distribute_ingredients, Phase 2).
RoundTotal ==
    /\ d_pc = "args"
    /\ d_rounded_total' = RoundedTotal(SumSeq(NeedsOf(d_trip_needs)), d_unit_size)
    /\ d_source' = "rounder"
    /\ d_pc' = "total"
    /\ UNCHANGED <<d_unit_size, d_trip_needs, d_result, pvars>>

\* Any other caller passes some positive multiple of unit_size.
CallerTotal ==
    /\ d_pc = "args"
    /\ \E k \in 1..MaxUnitsArg : d_rounded_total' = k * d_unit_size
    /\ d_source' = "caller"
    /\ d_pc' = "total"
    /\ UNCHANGED <<d_unit_size, d_trip_needs, d_result, pvars>>

Distribute ==
    /\ d_pc = "total"
    /\ d_result' = distribute_rounded_quantity_across_trips(
                       d_rounded_total, d_unit_size, d_trip_needs)
    /\ d_pc' = "returned"
    /\ UNCHANGED <<d_unit_size, d_trip_needs, d_rounded_total, d_source, pvars>>

DistNext == RoundTotal \/ CallerTotal \/ Distribute

SpecDist == DistInit /\ [][DistNext]_vars

----------------------------------------------------------------------------
(* Specification of one planning request *)

MaxPortions == 2    \* most eating dates one person has for one meal
MaxAggregatorCalls == 2   \* direct calls of the aggregator by one caller
BulkUnit == 10      \* the unit size of a bulk package, far above a meal's need

Persons == {"John", "Jane"}

One == [n |-> 1, d |-> 1]
OneAndHalf == [n |-> 3, d |-> 2]

\* The recipe database of the requests: a pudding with milk, scaled per diet
\* profile, and a rice dish that also uses the pudding powder.
RecipeDb ==
    [budyn |->
        [name |-> "Budyn",
         base_servings |-> [high_calorie |-> OneAndHalf, low_calorie |-> One],
         ingredients |-> << [name |-> "budyn", quantity |-> 1],
                            [name |-> "mleko", quantity |-> 4] >>],
     ryz |->
        [name |-> "Ryz",
         base_servings |-> [high_calorie |-> One],
         ingredients |-> << [name |-> "ryz", quantity |-> 3],
                            [name |-> "budyn", quantity |-> 2] >>]]

\* The catalog entry of the rice, by how it states adjustability; Catalog
\* also knows the kind "packaged", a rice sold in packages of 5.
RiceKinds == {"non_adjustable", "no_flag", "no_entry"}

Catalog(unit, cal_budyn, cal_mleko, rice_kind) ==
    LET packaged == [budyn |-> [calories_per_100g |-> cal_budyn, unit_size |-> unit,
                                adjustable |-> FALSE]]
        milk == [mleko |-> [calories_per_100g |-> cal_mleko, adjustable |-> TRUE]]
        rice == IF rice_kind = "non_adjustable"
                THEN [ryz |-> [calories_per_100g |-> 130, adjustable |-> FALSE]]
                ELSE IF rice_kind = "no_flag"
                THEN [ryz |-> [calories_per_100g |-> 130]]
                ELSE IF rice_kind = "packaged"
                THEN [ryz |-> [calories_per_100g |-> 130, unit_size |-> 5,
                               adjustable |-> FALSE]]
                ELSE EmptyDict
    IN  packaged @@ milk @@ rice

SeparateProfiles == [John |-> "high_calorie", Jane |-> "low_calorie"]
SharedProfile == [John |-> "high_calorie", Jane |-> "high_calorie"]

\* The configurations and catalogs of the requests: rounding enabled with a
\* profile per person and every kind of rice entry, rounding enabled with
\* one shared profile, rounding enabled with a bulk package, and rounding
\* disabled.
Setups ==
    {[config |-> [enable_ingredient_rounding |-> TRUE, diet_profiles |-> SeparateProfiles],
      ingredient_details |-> Catalog(unit, 90, 49, kind)] :
        unit \in 3..MaxUnit, kind \in RiceKinds}
    \cup
    {[config |-> [enable_ingredient_rounding |-> TRUE, diet_profiles |-> SharedProfile],
      ingredient_details |-> Catalog(unit, 90, 49, "non_adjustable")] :
        unit \in 3..MaxUnit}
    \cup
    {[config |-> [enable_ingredient_rounding |-> TRUE, diet_profiles |-> SeparateProfiles],
      ingredient_details |-> Catalog(BulkUnit, 90, 49, "non_adjustable")]}
    \cup
    {[config |-> [enable_ingredient_rounding |-> FALSE, diet_profiles |-> SeparateProfiles],
      ingredient_details |-> Catalog(3, 90, 49, "non_adjustable")]}

\* Scheduled meals: the recipe and, per person, the number of eating dates.
ScheduledMeals(ids) ==
    {[i \in 1..Len(ids) |->
         [id |-> i, meal_id |-> ids[i], eating_dates_per_person |-> e[i]]] :
        e \in [1..Len(ids) -> [Persons -> 0..MaxPortions]]}

\* The recipes of a plan's scheduled meals: one meal, or the pudding followed
\* by a second meal.
RecipeLists ==
    {<<r>> : r \in DOMAIN RecipeDb} \cup {<<"budyn", r>> : r \in DOMAIN RecipeDb}

\* The shopping trips of a plan of n meals: none, one or two trips, each
\* listing one or more meals in plan order (a meal may be listed by both
\* trips or by none).
TripsOver(n) ==
    LET one == {<<i>> : i \in 1..n} \cup {<<1, 2>> : i \in {n} \ {1}}
    IN  {<<>>} \cup {<<a>> : a \in one} \cup {<<a, b>> : a \in one, b \in one}

NoHistory ==
    [expanded |-> <<>>, agg_calls |-> 0, prev |-> <<>>, before_comp |-> <<>>,
     comp_ran |-> FALSE]

DistIdle ==
    /\ d_pc = "idle"
    /\ d_unit_size = 0
    /\ d_trip_needs = <<>>
    /\ d_rounded_total = 0
    /\ d_source = "none"
    /\ d_result = <<>>

RequestStart ==
    /\ pc = "start"
    /\ meal_plan = <<>>
    /\ aggregated = <<>>
    /\ agg_order = <<>>
    /\ trip_needs = <<>>
    /\ warnings = <<>>
    /\ calorie_delta_per_profile = EmptyDict
    /\ ingredients_per_trip = <<>>
    /\ error = "none"
    /\ hist = NoHistory
    /\ nutrition_by_meal = <<>>
    /\ DistIdle

Init ==
    /\ meals_db = RecipeDb
    /\ \E setup \in Setups :
           /\ config = setup.config
           /\ ingredient_details = setup.ingredient_details
    /\ \E ids \in RecipeLists :
           \E sm \in ScheduledMeals(ids), trips \in TripsOver(Len(ids)) :
               plan = [scheduled_meals |-> sm, shopping_trips |-> trips]
    /\ RequestStart
    /\ peer = NoPeer

\* An expansion that stores the quantities it computes in the recipe: every
\* recipe the plan schedules is left with twice its base quantities.
ExpandCallWritingRecipe(cfg, db, raw) ==
    [meals_db |->
        [id \in DOMAIN db |->
            IF \E i \in 1..Len(raw.scheduled_meals) : raw.scheduled_meals[i].meal_id = id
            THEN [db[id] EXCEPT !.ingredients =
                     [j \in 1..Len(db[id].ingredients) |->
                         [db[id].ingredients[j] EXCEPT !.quantity = 2 * @]]]
            ELSE db[id]],
     result |-> expand_meal_plan(cfg, db, raw)]

\* One call of expand_meal_plan: what it returns and the recipe database it
\* leaves behind.  The call builds a new dict for every ingredient and meal
\* and assigns to no attribute of the planner and to no recipe.
ExpandCall(cfg, db, raw) ==
    [meals_db |-> db, result |-> expand_meal_plan(cfg, db, raw)]

ExpandMealPlan ==
    /\ pc = "start"
    /\ \E call \in {ExpandCall(config, meals_db, plan)} :
           /\ meals_db' = call.meals_db
           /\ IF call.result.error # "none"
              THEN /\ error' = call.result.error
                   /\ pc' = "failed"
                   /\ UNCHANGED <<meal_plan, hist>>
              ELSE /\ meal_plan' = call.result.meal_plan
                   /\ hist' = [hist EXCEPT !.expanded = call.result.meal_plan]
                   /\ pc' = "expanded"
                   /\ UNCHANGED error
    /\ UNCHANGED <<ingredient_details, config, plan, aggregated, agg_order,
                   trip_needs, warnings, calorie_delta_per_profile,
                   ingredients_per_trip, nutrition_by_meal, peer, dvars>>

\* An aggregator that accumulates into the plan's own ingredient entries:
\* the call leaves every entry holding twice its quantity.
AggregatorCallAccumulatingInPlan(mp) ==
    [meal_plan |->
        [mp EXCEPT !.meals =
            [k \in 1..Len(mp.meals) |->
                [mp.meals[k] EXCEPT !.ingredients =
                    [j \in 1..Len(mp.meals[k].ingredients) |->
                        [mp.meals[k].ingredients[j] EXCEPT !.quantity = 2 * @]]]]],
     result |-> aggregate_ingredients_across_trips(mp)]

\* One call of the aggregator: what it returns and the plan it leaves behind.
AggregatorCall(mp) ==
    [meal_plan |-> mp, result |-> aggregate_ingredients_across_trips(mp)]

\* Phase 1 of round_and_distribute_ingredients, or a direct call.
AggregateIngredients ==
    /\ pc \in {"expanded", "aggregated"}
    /\ hist.agg_calls < MaxAggregatorCalls
    /\ \E call \in {AggregatorCall(meal_plan)} :
           /\ meal_plan' = call.meal_plan
           /\ aggregated' = call.result.aggregated
           /\ agg_order' = call.result.order
           /\ trip_needs' = call.result.trip_needs
    /\ hist' = [hist EXCEPT !.agg_calls = @ + 1,
                            !.prev = [aggregated |-> aggregated,
                                      trip_needs |-> trip_needs]]
    /\ pc' = IF pc = "expanded" THEN "aggregated" ELSE "aggregated_again"
    /\ UNCHANGED <<meals_db, ingredient_details, config, plan, warnings,
                   calorie_delta_per_profile, ingredients_per_trip, error,
                   nutrition_by_meal, peer, dvars>>

\* Phases 2 and 3: every package-constrained ingredient is rounded, its
\* warning generated, its calorie delta accumulated and its rounded quantity
\* written back into the meals.
RoundAndWriteBack ==
    /\ pc = "aggregated"
    /\ IF ~RoundingEnabled(config)
       THEN /\ pc' = "compensated"
            /\ UNCHANGED <<meal_plan, aggregated, warnings,
                           calorie_delta_per_profile, error>>
       ELSE \E st \in {RoundLoop(config, ingredient_details, trip_needs, agg_order,
                          [meal_plan |-> meal_plan, aggregated |-> aggregated,
                           warnings |-> <<>>, delta |-> EmptyDict, error |-> "none"],
                          Len(agg_order))} :
                /\ meal_plan' = st.meal_plan
                /\ aggregated' = st.aggregated
                /\ warnings' = st.warnings
                /\ calorie_delta_per_profile' = st.delta
                /\ error' = st.error
                /\ pc' = IF st.error = "none" THEN "distributed" ELSE "failed"
    /\ UNCHANGED <<meals_db, ingredient_details, config, plan, agg_order, trip_needs,
                   ingredients_per_trip, hist, nutrition_by_meal, peer, dvars>>

\* Phase 4: compensation, when some profile's delta exceeds 0.1 kcal, and
\* the re-aggregation that follows it.
CompensateCalories ==
    /\ pc = "distributed"
    /\ IF NeedsCompensation(calorie_delta_per_profile)
       THEN \E mp \in {compensate_calories_per_profile(config, ingredient_details,
                          aggregated, agg_order, calorie_delta_per_profile, meal_plan)} :
              \E again \in {aggregate_ingredients_across_trips(mp)} :
                /\ meal_plan' = mp
                /\ aggregated' = again.aggregated
                /\ agg_order' = again.order
                /\ trip_needs' = again.trip_needs
       ELSE UNCHANGED <<meal_plan, aggregated, agg_order, trip_needs>>
    /\ hist' = [hist EXCEPT !.before_comp = meal_plan,
                            !.comp_ran = NeedsCompensation(calorie_delta_per_profile)]
    /\ pc' = "compensated"
    /\ UNCHANGED <<meals_db, ingredient_details, config, plan, warnings,
                   calorie_delta_per_profile, ingredients_per_trip, error,
                   nutrition_by_meal, peer, dvars>>

\* Phase 5 and the return of round_and_distribute_ingredients.
BuildTripLists ==
    /\ pc = "compensated"
    /\ ingredients_per_trip' = BuildIngredientsPerTrip(meal_plan)
    /\ pc' = "done"
    /\ UNCHANGED <<meals_db, ingredient_details, config, plan, meal_plan, aggregated,
                   agg_order, trip_needs, warnings, calorie_delta_per_profile, error,
                   hist, nutrition_by_meal, peer, dvars>>

Next ==
    \/ ExpandMealPlan
    \/ AggregateIngredients
    \/ RoundAndWriteBack
    \/ CompensateCalories
    \/ BuildTripLists

Spec == Init /\ [][Next]_vars

----------------------------------------------------------------------------
(* Specification of the requests whose single meal has one package-rounded
   and one adjustable ingredient, over base quantities, unit sizes and
   calorie densities *)

MaxBaseQuantity == 3   \* largest base quantity of the packaged ingredient

\* The recipe: qx of the packaged and qy of the adjustable ingredient.
CalRecipeDb(qx, qy) ==
    [budyn |->
        [name |-> "Budyn",
         base_servings |-> [high_calorie |-> OneAndHalf, low_calorie |-> One],
         ingredients |-> << [name |-> "budyn", quantity |-> qx],
                            [name |-> "mleko", quantity |-> qy] >>]]

\* kcal per 100 units of the packaged and of the adjustable ingredient.
PackagedCalories == {40, 90, 350}
AdjustableCalories == {0, 49}

CalInit ==
    /\ \E qx \in 1..MaxBaseQuantity, qy \in {4, 20} : meals_db = CalRecipeDb(qx, qy)
    /\ \E profiles \in {SeparateProfiles, SharedProfile} :
           config = [enable_ingredient_rounding |-> TRUE, diet_profiles |-> profiles]
    /\ \E unit \in 3..MaxUnit, cx \in PackagedCalories, cy \in AdjustableCalories :
           ingredient_details = Catalog(unit, cx, cy, "no_entry")
    /\ \E sm \in ScheduledMeals(<<"budyn">>), trips \in {<<>>, << <<1>> >>} :
           plan = [scheduled_meals |-> sm, shopping_trips |-> trips]
    /\ RequestStart
    /\ peer = NoPeer

SpecCal == CalInit /\ [][Next]_vars

----------------------------------------------------------------------------
(* Specification of the requests whose plan may name a recipe the database
   does not hold or a person the configuration does not map *)

\* Recipe ids of scheduled meals: the two recipes of the database and two
\* ids it does not hold.
ScheduledIds == DOMAIN RecipeDb \cup {"kasza", "zupa"}

\* The person-to-profile mapping without an entry for Jane.
JohnOnlyProfile == [John |-> "high_calorie"]

\* The recipe database in which the milk of the pudding carries a multiplier
\* of its own for the high-calorie profile: 1.0 where the recipe says 1.5.
OverrideRecipeDb ==
    [RecipeDb EXCEPT !.budyn.ingredients[2] =
        [name |-> "mleko", quantity |-> 4, base_servings |-> [high_calorie |-> One]]]

ExpandInit ==
    /\ meals_db \in {RecipeDb, OverrideRecipeDb}
    /\ \E profiles \in {SeparateProfiles, JohnOnlyProfile} :
           config = [enable_ingredient_rounding |-> TRUE, diet_profiles |-> profiles]
    /\ ingredient_details = Catalog(3, 90, 49, "non_adjustable")
    /\ \E ids \in {<<a>> : a \in ScheduledIds}
                   \cup {<<a, b>> : a \in ScheduledIds, b \in ScheduledIds} :
           \E sm \in ScheduledMeals(ids),
              trips \in {<<>>, << [i \in 1..Len(ids) |-> i] >>} :
               plan = [scheduled_meals |-> sm, shopping_trips |-> trips]
    /\ RequestStart
    /\ peer = NoPeer

SpecExpand == ExpandInit /\ [][Next]_vars

----------------------------------------------------------------------------
(* Specification of the requests that ask for nutrition *)

\* A catalog entry with its fat, protein and carbohydrates per 100g.
WithNutrients(entry, fat, protein, carbs) ==
    [fat_per_100g |-> fat, protein_per_100g |-> protein, carbs_per_100g |-> carbs]
        @@ entry

\* The catalog with nutrition values for the pudding powder and the milk;
\* the rice has an entry with calories only, or no entry at all.
NutritionCatalog(rice_kind) ==
    LET base == Catalog(3, 90, 49, rice_kind)
    IN  [name \in DOMAIN base |->
            IF name = "budyn" THEN WithNutrients(base[name], 5, 10, 80)
            ELSE IF name = "mleko" THEN WithNutrients(base[name], 3, 3, 5)
            ELSE base[name]]

NutritionInit ==
    /\ meals_db = RecipeDb
    /\ \E enabled \in BOOLEAN :
           config = [enable_ingredient_rounding |-> enabled,
                     diet_profiles |-> SeparateProfiles]
    /\ \E kind \in RiceKinds \cup {"packaged"} :
           ingredient_details = NutritionCatalog(kind)
    /\ \E ids \in RecipeLists :
           \E sm \in ScheduledMeals(ids),
              trips \in {<<>>, << [i \in 1..Len(ids) |-> i] >>} :
               plan = [scheduled_meals |-> sm, shopping_trips |-> trips]
    /\ RequestStart
    /\ peer = NoPeer

\* calculate_meal_plan_nutrition on the raw plan of the request.
CalculateMealPlanNutrition ==
    /\ pc = "start"
    /\ \E apply_rounding \in BOOLEAN :
           \E r \in calculate_meal_plan_nutrition(config, meals_db, ingredient_details,
                                                  plan, apply_rounding) :
               /\ error' = r.error
               /\ nutrition_by_meal' = r.nutrition_by_meal
               /\ pc' = IF r.error = "none" THEN "nutrition" ELSE "failed"
    /\ UNCHANGED <<meals_db, ingredient_details, config, plan, meal_plan, aggregated,
                   agg_order, trip_needs, warnings, calorie_delta_per_profile,
                   ingredients_per_trip, hist, peer, dvars>>

\* calculate_meal_nutrition on one meal of the plan that rounding and
\* distribution have processed.
CalculateMealNutrition ==
    /\ pc = "done"
    /\ \E k \in 1..Len(meal_plan.meals) :
           \E n \in calculate_meal_nutrition(config, ingredient_details, meal_plan.meals[k]) :
               nutrition_by_meal' = (meal_plan.meals[k].id :> n)
    /\ pc' = "meal_nutrition"
    /\ UNCHANGED <<meals_db, ingredient_details, config, plan, meal_plan, aggregated,
                   agg_order, trip_needs, warnings, calorie_delta_per_profile,
                   ingredients_per_trip, error, hist, peer, dvars>>

NutritionNext == Next \/ CalculateMealPlanNutrition \/ CalculateMealNutrition

SpecNutrition == NutritionInit /\ [][NutritionNext]_vars

----------------------------------------------------------------------------
(* Specification of two requests that share one planner: each request works
   on its own plan, the recipe database, the catalog and the configuration
   are the planner's and are shared; the stages of the two requests
   interleave *)

\* The state of one request: its position and everything it computes.
Local ==
    [pc |-> pc, plan |-> plan, meal_plan |-> meal_plan, aggregated |-> aggregated,
     agg_order |-> agg_order, trip_needs |-> trip_needs, warnings |-> warnings,
     calorie_delta_per_profile |-> calorie_delta_per_profile,
     ingredients_per_trip |-> ingredients_per_trip, error |-> error, hist |-> hist,
     nutrition_by_meal |-> nutrition_by_meal]

\* A request that has not started, on plan p.
LocalStart(p) ==
    [pc |-> "start", plan |-> p, meal_plan |-> <<>>, aggregated |-> <<>>,
     agg_order |-> <<>>, trip_needs |-> <<>>, warnings |-> <<>>,
     calorie_delta_per_profile |-> EmptyDict,
     ingredients_per_trip |-> <<>>, error |-> "none", hist |-> NoHistory,
     nutrition_by_meal |-> <<>>]

\* The eating dates of the pudding of the two requests: Jane alone, John
\* alone, or nobody.
PairServings ==
    {[John |-> 0, Jane |-> 1], [John |-> 2, Jane |-> 0], [John |-> 0, Jane |-> 0]}

\* The plans of the two requests: the pudding, alone or followed by the
\* rice dish for John, with no trip or one trip listing every meal.
PairPlans ==
    UNION {{[scheduled_meals |->
                [i \in 1..Len(ids) |->
                    [id |-> i, meal_id |-> ids[i],
                     eating_dates_per_person |->
                         IF i = 1 THEN first ELSE [John |-> 1, Jane |-> 0]]],
             shopping_trips |-> trips] :
               first \in PairServings,
               trips \in {<<>>, << [i \in 1..Len(ids) |-> i] >>}} :
           ids \in {<<"budyn">>, <<"budyn", "ryz">>}}

PairInit ==
    /\ meals_db = RecipeDb
    /\ config = [enable_ingredient_rounding |-> TRUE, diet_profiles |-> SeparateProfiles]
    /\ ingredient_details = Catalog(4, 90, 49, "non_adjustable")
    /\ plan \in PairPlans
    /\ RequestStart
    /\ \E other \in PairPlans :
           peer = [active |-> 1,
                   request |-> LocalStart(other),
                   resumed_at |-> "created",
                   switches |-> 0,
                   planner |-> [meals_db |-> meals_db,
                                ingredient_details |-> ingredient_details,
                                config |-> config]]

\* The running request is suspended between two of its stages and the other
\* request runs: after its first stage, or at once when it was just created.
SwitchRequest ==
    /\ peer.active # 0
    /\ pc # peer.resumed_at
    /\ peer' = [peer EXCEPT !.active = 3 - @,
                            !.request = Local,
                            !.resumed_at = peer.request.pc,
                            !.switches = @ + 1]
    /\ pc' = peer.request.pc
    /\ plan' = peer.request.plan
    /\ meal_plan' = peer.request.meal_plan
    /\ aggregated' = peer.request.aggregated
    /\ agg_order' = peer.request.agg_order
    /\ trip_needs' = peer.request.trip_needs
    /\ warnings' = peer.request.warnings
    /\ calorie_delta_per_profile' = peer.request.calorie_delta_per_profile
    /\ ingredients_per_trip' = peer.request.ingredients_per_trip
    /\ error' = peer.request.error
    /\ hist' = peer.request.hist
    /\ nutrition_by_meal' = peer.request.nutrition_by_meal
    /\ UNCHANGED <<meals_db, ingredient_details, config, dvars>>

PairNext == Next \/ SwitchRequest

SpecPair == PairInit /\ [][PairNext]_vars

----------------------------------------------------------------------------
(* Specification of the requests whose catalog holds light ingredients: a
   packaged ingredient of 5 kcal per 100g, whose rounding moves a profile by
   at most 0.1 kcal, and an adjustable ingredient of 11 kcal per 100g, which
   supplies fewer calories than a rounding of the usual powder adds *)

\* kcal per 100g of the packaged and of the adjustable ingredient.  With
\* these densities no adjusted quantity of the plans below is an exact half,
\* where the error of the float product would decide round().
LightPackagedCalories == {5, 90}
LightAdjustableCalories == {11, 49}

LightInit ==
    /\ meals_db = RecipeDb
    /\ config = [enable_ingredient_rounding |-> TRUE, diet_profiles |-> SeparateProfiles]
    /\ \E cx \in LightPackagedCalories, cy \in LightAdjustableCalories,
          kind \in {"no_flag", "packaged"} :
           ingredient_details = Catalog(3, cx, cy, kind)
    /\ \E ids \in RecipeLists :
           \E sm \in ScheduledMeals(ids), trips \in TripsOver(Len(ids)) :
               plan = [scheduled_meals |-> sm, shopping_trips |-> trips]
    /\ RequestStart
    /\ peer = NoPeer

SpecLight == LightInit /\ [][Next]_vars

----------------------------------------------------------------------------
(* Specification of one planning request with a crate-sized package *)

\* The unit sizes of the pudding powder: a small package and a crate.  The
\* crate is above 1.3 times what ten portions of the smaller share of pudding
\* need and within 1.3 times what six portions of the larger share need; with
\* these sizes no relative error the warnings compare is exactly 0.3 or 0.5.
PuddingUnits == {3, 15}

\* The pudding powder is sold by the small package or by the crate, with the
\* rice not adjustable, the milk adjustable and the profiles separate.
CrateInit ==
    /\ meals_db = RecipeDb
    /\ config = [enable_ingredient_rounding |-> TRUE, diet_profiles |-> SeparateProfiles]
    /\ \E unit \in PuddingUnits :
           ingredient_details = Catalog(unit, 90, 49, "non_adjustable")
    /\ \E ids \in RecipeLists :
           \E sm \in ScheduledMeals(ids), trips \in TripsOver(Len(ids)) :
               plan = [scheduled_meals |-> sm, shopping_trips |-> trips]
    /\ RequestStart
    /\ peer = NoPeer

SpecCrate == CrateInit /\ [][Next]_vars

----------------------------------------------------------------------------
(* Specification of the requests that process their plan twice: after
   round_and_distribute_ingredients has returned, the caller passes the same
   expanded plan, which the first call has changed in place, to a second
   call *)

\* The second call of round_and_distribute_ingredients, as a whole.  The
\* history keeps what the first call left and returned; aggregated,
\* agg_order and trip_needs are locals of a call and keep the first call's.
RoundAndDistributeAgain ==
    /\ pc = "done"
    /\ \E r \in {RoundAndDistribute(config, ingredient_details, meal_plan)} :
           /\ error' = r.error
           /\ meal_plan' = r.meal_plan
           /\ pc' = IF r.error = "none" THEN "done_again" ELSE "failed"
           /\ ingredients_per_trip' =
                  IF r.error = "none" THEN r.ingredients_per_trip ELSE ingredients_per_trip
           /\ warnings' = IF r.error = "none" THEN r.warnings ELSE warnings
           /\ calorie_delta_per_profile' =
                  IF r.error = "none" THEN r.calorie_adjustments
                  ELSE calorie_delta_per_profile
    /\ hist' = [hist EXCEPT !.prev = [meal_plan |-> meal_plan,
                                      ingredients_per_trip |-> ingredients_per_trip]]
    /\ UNCHANGED <<meals_db, ingredient_details, config, plan, aggregated, agg_order,
                   trip_needs, nutrition_by_meal, peer, dvars>>

AgainNext == Next \/ RoundAndDistributeAgain

SpecAgain == LightInit /\ [][AgainNext]_vars

----------------------------------------------------------------------------
(* Properties of the Trip Distributor and the Package Rounder (SpecDist) *)

\* The need of the trip with the smallest trip index.
FirstTripNeed(needs) ==
    LET i == CHOOSE j \in 1..Len(needs) :
                 \A k \in 1..Len(needs) : needs[j][1] <= needs[k][1]
    IN  needs[i][2]

\* C1: for every unit size U > 0, every rounded_total that is a positive
\* multiple of U and every non-empty list of trip needs, the distributor
\* returns a list as long as trip_needs, ordered by trip index (with two or
\* more trips the first entry is what the trip with the smallest index buys:
\* nothing, or the ceiling of its need in units), every entry an integer
\* multiple of U, and the entries sum exactly to rounded_total.
C1_DistributionExact ==
    d_pc = "returned" =>
        /\ Len(d_result) = Len(d_trip_needs)
        /\ \A i \in 1..Len(d_result) : d_result[i] % d_unit_size = 0
        /\ SumSeq(d_result) = d_rounded_total
        /\ Len(d_trip_needs) >= 2 =>
               d_result[1] =
                   IF FirstTripNeed(d_trip_needs) <= 0 THEN 0
                   ELSE PyCeil(FirstTripNeed(d_trip_needs), d_unit_size) * d_unit_size

C1_Witness ==
    /\ d_pc = "returned"
    /\ d_source = "caller"
    /\ Len(d_trip_needs) = 3
    /\ d_trip_needs[1][1] > d_trip_needs[3][1]
    /\ d_unit_size > 1
    /\ d_result[1] > 0
    /\ d_result[3] > 0

\* C3: for every unit size U > 0 and every plan-wide original total >= 0 the
\* rounded total is k*U for an integer k >= 1; an original below U/2 gives
\* exactly U; an original of at least U/2 moves by at most U/2; and no other
\* positive multiple of U is nearer to the original.
C3_RoundingFloor ==
    LET original == SumSeq(NeedsOf(d_trip_needs))
        U == d_unit_size
        R == d_rounded_total
    IN  (d_pc = "total" /\ d_source = "rounder" /\ original >= 0) =>
            /\ R % U = 0
            /\ R \div U >= 1
            /\ 2 * original < U => R = U
            /\ 2 * original >= U => 2 * Abs(R - original) <= U
            /\ \A k \in 1..(MaxTrips * MaxNeed + 1) :
                   Abs(R - original) <= Abs(k * U - original)

C3_Witness ==
    /\ d_pc = "total"
    /\ d_source = "rounder"
    /\ d_unit_size = 4
    /\ SumSeq(NeedsOf(d_trip_needs)) = 1
    /\ d_rounded_total = 4

\* C7: whenever the distributor is invoked with non-negative trip needs and
\* rounded_total = max(U, round(sum of needs / U) * U), the quantity
\* allocated to the final trip is >= 0.
C7_LastTripNonNegative ==
    (/\ d_pc = "returned"
     /\ d_source = "rounder"
     /\ \A i \in 1..Len(d_trip_needs) : d_trip_needs[i][2] >= 0)
        => d_result[Len(d_result)] >= 0

\* The trips of the call in trip order, and the prefix sums of what is
\* needed and of what is bought up to and including trip i.
SortedNeeds == NeedsOf(SortByIndex(d_trip_needs))
CumulativeNeed(i) == SumSeq(SubSeq(SortedNeeds, 1, i))
CumulativeBought(i) == SumSeq(SubSeq(d_result, 1, i))
LeftoverBefore(i) == CumulativeBought(i - 1) - CumulativeNeed(i - 1)

\* C18: with non-negative needs, every non-final trip buys 0 units exactly
\* when the leftover carried from earlier trips covers its need, and
\* otherwise ceil((need - leftover) / U) units (the least k with
\* k * U >= need - leftover); after each non-final trip the quantity bought
\* so far covers the cumulative need so far and the leftover is in [0, U).
C18_LeftoverCarried ==
    (/\ d_pc = "returned"
     /\ \A i \in 1..Len(d_trip_needs) : d_trip_needs[i][2] >= 0)
        => \A i \in 1..(Len(d_result) - 1) :
               LET U == d_unit_size
                   need == SortedNeeds[i]
                   leftover == LeftoverBefore(i)
                   deficit == need - leftover
               IN  /\ (d_result[i] = 0) <=> (leftover >= need)
                   /\ leftover < need =>
                          \E k \in 1..(MaxNeed + 1) :
                              /\ d_result[i] = k * U
                              /\ k * U >= deficit
                              /\ (k - 1) * U < deficit
                   /\ CumulativeBought(i) >= CumulativeNeed(i)
                   /\ CumulativeBought(i) - CumulativeNeed(i) < U

\* The example of the specification scaled to the bounds: U = 4, needs
\* [1, 1, 5], rounded total 8 gives [4, 0, 4].
C18_Witness ==
    /\ d_pc = "returned"
    /\ d_unit_size = 4
    /\ SortedNeeds = <<1, 1, 5>>
    /\ d_rounded_total = 8
    /\ d_result = <<4, 0, 4>>

----------------------------------------------------------------------------
(* Properties of one planning request (Spec) *)

\* What the aggregator returns for the expanded plan, before any rounding.
OriginalAggregate == aggregate_ingredients_across_trips(hist.expanded)

\* The ingredients of the plan that have a catalog unit size.
PackagedNames ==
    {name \in DOMAIN OriginalAggregate.aggregated :
        UnitSizeOf(ingredient_details, name) > 0}

OriginalTotal(name) == OriginalAggregate.aggregated[name].total_qty

\* The quantity ingredients_per_trip reports for an ingredient on trip t.
TripQuantity(t, name) ==
    LET hits == SelectSeq(ingredients_per_trip[t], LAMBDA e : e.name = name)
    IN  SumSeq([i \in 1..Len(hits) |-> hits[i].quantity])

\* round_and_distribute_ingredients has returned for a plan with declared
\* trips and rounding enabled.
ReturnedWithTrips ==
    /\ pc = "done"
    /\ config.enable_ingredient_rounding
    /\ plan.shopping_trips # <<>>

\* C2: after round_and_distribute_ingredients on an expanded plan with
\* declared shopping trips and rounding enabled, for every ingredient with a
\* catalog unit size U the quantity reported for each trip is an integer
\* multiple of U, and those quantities sum over the trips to the plan-wide
\* rounded total max(U, round(original_total / U) * U).
C2_TripQuantitiesArePackages ==
    ReturnedWithTrips =>
        \A name \in PackagedNames :
            LET U == UnitSizeOf(ingredient_details, name)
            IN  /\ \A t \in 1..Len(ingredients_per_trip) : TripQuantity(t, name) % U = 0
                /\ SumSeq([t \in 1..Len(ingredients_per_trip) |-> TripQuantity(t, name)])
                       = RoundedTotal(OriginalTotal(name), U)

\* Every ingredient entry of every meal holds the sum of its per-person
\* quantities as its total.
Conserved(mp) ==
    \A k \in 1..Len(mp.meals) :
        \A j \in 1..Len(mp.meals[k].ingredients) :
            LET ing == mp.meals[k].ingredients[j]
                people == SelectSeq(PersonOrder, LAMBDA p : p \in DOMAIN ing.per_person)
            IN  ing.quantity =
                    SumSeq([i \in 1..Len(people) |-> ing.per_person[people[i]].quantity])

\* C4: for every ingredient of every expanded meal the total quantity equals
\* the sum of the per-person quantities after expansion, after the rounded
\* quantity has been distributed and written back (with declared trips and
\* with none), and after calorie compensation.
C4_Conservation ==
    pc \in {"expanded", "distributed", "compensated"} => Conserved(meal_plan)

\* An ingredient whose catalog entry is flagged adjustable = true and has no
\* package unit size.
FlaggedAdjustable(name) ==
    /\ name \in DOMAIN ingredient_details
    /\ "adjustable" \in DOMAIN ingredient_details[name]
    /\ ingredient_details[name].adjustable
    /\ UnitSizeOf(ingredient_details, name) = 0

\* An ingredient that has a package unit size or whose catalog entry sets
\* adjustable = false.
ExcludedFromCompensation(name) ==
    \/ UnitSizeOf(ingredient_details, name) > 0
    \/ /\ name \in DOMAIN ingredient_details
       /\ "adjustable" \in DOMAIN ingredient_details[name]
       /\ ~ingredient_details[name].adjustable

\* Entry j of meal k is what it was when compensation started.
KeptByCompensation(k, j) ==
    meal_plan.meals[k].ingredients[j] = hist.before_comp.meals[k].ingredients[j]

CompensationRan == pc = "compensated" /\ hist.comp_ran

\* C6 as stated: compensation changes the quantities only of ingredients
\* flagged adjustable = true without package unit size; every other
\* ingredient (flagged non-adjustable, package-constrained, without catalog
\* entry or without adjustable flag) keeps in every meal the total and
\* per-person quantities it had when compensation started.
C6_OnlyFlaggedAdjustableChange ==
    CompensationRan =>
        \A k \in 1..Len(meal_plan.meals) :
            \A j \in 1..Len(meal_plan.meals[k].ingredients) :
                ~FlaggedAdjustable(meal_plan.meals[k].ingredients[j].name)
                    => KeptByCompensation(k, j)

\* C6 as amended: compensation keeps, in every meal, the total and
\* per-person quantities of every ingredient that has a package unit size or
\* whose catalog entry sets adjustable = false; an ingredient without catalog
\* entry or without adjustable flag counts as adjustable and may change.
C6_ExcludedIngredientsKept ==
    CompensationRan =>
        \A k \in 1..Len(meal_plan.meals) :
            \A j \in 1..Len(meal_plan.meals[k].ingredients) :
                ExcludedFromCompensation(meal_plan.meals[k].ingredients[j].name)
                    => KeptByCompensation(k, j)

\* Compensation ran on a meal of rice flagged non-adjustable, packaged
\* pudding powder and, in another meal, milk: it moved the milk.
C6_Witness ==
    /\ CompensationRan
    /\ Len(meal_plan.meals) = 2
    /\ meal_plan.meals[2].meal_id = "ryz"
    /\ meal_plan.meals[2].ingredients[1].quantity > 0
    /\ ExcludedFromCompensation("ryz")
    /\ ~KeptByCompensation(1, 2)

\* The factor of a profile as the claim states it: (adjustable_calories -
\* delta) / adjustable_calories, or 1 when the adjustable calories are 0;
\* the adjustable calories are those of the plan when compensation starts
\* and a profile without delta has delta 0.
StatedFactor(prof) ==
    LET a100 == AdjustableCalories100(config, ingredient_details,
                    OriginalAggregate.aggregated, OriginalAggregate.order, prof)
        delta == Get(calorie_delta_per_profile, prof, RatZero)
    IN  IF a100 = 0 THEN [n |-> 1, d |-> 1]
        ELSE [n |-> a100 * delta.d - 100 * delta.n, d |-> a100 * delta.d]

\* Entry j of meal k is its value at the start of compensation scaled once:
\* every per-person quantity is round(old * factor of the person's profile)
\* and the total is the sum of the adjusted per-person quantities.
ScaledOnce(k, j) ==
    LET old == hist.before_comp.meals[k].ingredients[j]
        new == meal_plan.meals[k].ingredients[j]
    IN  /\ DOMAIN new.per_person = DOMAIN old.per_person
        /\ \A p \in DOMAIN old.per_person :
               LET f == StatedFactor(ProfileOf(config, p))
               IN  new.per_person[p].quantity =
                       PyRound(old.per_person[p].quantity * f.n, f.d)
        /\ new.quantity = SumFn([p \in DOMAIN new.per_person |->
                                    new.per_person[p].quantity])

\* C20: when compensation runs, every adjustable ingredient's per-person
\* quantity in every meal becomes round(old quantity * factor of that
\* person's profile), with factor = (adjustable_calories - delta) /
\* adjustable_calories or 1.0 when the adjustable calories are 0; each such
\* meal ingredient is scaled exactly once and its total is recomputed as the
\* sum of its adjusted per-person quantities.
C20_EveryMealScaledOnce ==
    CompensationRan =>
        \A k \in 1..Len(meal_plan.meals) :
            \A j \in 1..Len(meal_plan.meals[k].ingredients) :
                IsAdjustable(ingredient_details, meal_plan.meals[k].ingredients[j].name)
                    => ScaledOnce(k, j)

\* C8: processing an expanded plan with no declared shopping trips gives the
\* same per-meal totals and per-person quantities, the same warnings and the
\* same calorie adjustments as processing it with one explicit trip that
\* lists every scheduled meal once.
C8_ImplicitTripSame ==
    (/\ pc = "done" \/ (pc = "failed" /\ error = DivisionByZero)
     /\ plan.shopping_trips = << [i \in 1..Len(plan.scheduled_meals) |-> i] >>)
        => LET implicit == RoundAndDistribute(config, ingredient_details,
                               [hist.expanded EXCEPT !.shopping_trips = <<>>])
           IN  /\ implicit.error = error
               /\ implicit.meal_plan.meals = meal_plan.meals
               /\ error = "none" =>
                      /\ implicit.warnings = warnings
                      /\ implicit.calorie_adjustments = calorie_delta_per_profile

C16_NoDivisionByZero == error # DivisionByZero

\* The trips whose meals are bought, as lists of meal ids: the declared
\* trips, or all meals as one trip when none is declared.
ListedTrips ==
    IF meal_plan.shopping_trips = <<>>
    THEN << [k \in 1..Len(meal_plan.meals) |-> meal_plan.meals[k].id] >>
    ELSE meal_plan.shopping_trips

\* The listings <<trip, position>> of meals of the plan, and the meal listed.
ListingsOf(t) ==
    {<<t, j>> : j \in {j \in 1..Len(ListedTrips[t]) :
                          \E k \in 1..Len(meal_plan.meals) :
                              meal_plan.meals[k].id = ListedTrips[t][j]}}
AllListings == UNION {ListingsOf(t) : t \in 1..Len(ListedTrips)}
ListedMeal(l) ==
    meal_plan.meals[CHOOSE k \in 1..Len(meal_plan.meals) :
                        meal_plan.meals[k].id = ListedTrips[l[1]][l[2]]]

\* The entries of a meal for one ingredient name, its quantity there and the
\* quantity of one person there.
EntriesOf(meal, name) ==
    {j \in 1..Len(meal.ingredients) : meal.ingredients[j].name = name}
MealQuantity(meal, name) ==
    SumFn([j \in EntriesOf(meal, name) |-> meal.ingredients[j].quantity])
MealPersonQuantity(meal, name, p) ==
    SumFn([j \in {j \in EntriesOf(meal, name) : p \in DOMAIN meal.ingredients[j].per_person}
             |-> meal.ingredients[j].per_person[p].quantity])
Holding(ls, name) == {l \in ls : EntriesOf(ListedMeal(l), name) # {}}

IngredientNames == {"budyn", "mleko", "ryz"}

\* C19: for every ingredient name the aggregator returns a plan-wide total
\* equal to the sum of its quantities over all meals listed in all trips,
\* per-person totals equal to the per-person sums, and a trip_needs list
\* with exactly one (trip_index, need) entry for each trip whose meals
\* contain the ingredient, in increasing trip_index order, whose needs sum to
\* the plan-wide total.
C19_AggregateSums ==
    pc = "aggregated" =>
        \A name \in IngredientNames :
            LET holding == Holding(AllListings, name)
                trips == {l[1] : l \in holding}
            IN  IF holding = {}
                THEN name \notin DOMAIN aggregated /\ name \notin DOMAIN trip_needs
                ELSE /\ aggregated[name].total_qty =
                            SumFn([l \in holding |-> MealQuantity(ListedMeal(l), name)])
                     /\ \A p \in Persons :
                            LET with == {l \in holding :
                                           \E j \in EntriesOf(ListedMeal(l), name) :
                                               p \in DOMAIN ListedMeal(l).ingredients[j].per_person}
                            IN  IF with = {}
                                THEN p \notin DOMAIN aggregated[name].per_person_totals
                                ELSE aggregated[name].per_person_totals[p].quantity =
                                         SumFn([l \in with |->
                                             MealPersonQuantity(ListedMeal(l), name, p)])
                     /\ Len(trip_needs[name]) = Cardinality(trips)
                     /\ \A i \in 1..Len(trip_needs[name]) :
                            LET t == trip_needs[name][i][1] + 1
                            IN  /\ t \in trips
                                /\ trip_needs[name][i][2] =
                                       SumFn([l \in Holding(ListingsOf(t), name) |->
                                                 MealQuantity(ListedMeal(l), name)])
                                /\ i > 1 => trip_needs[name][i - 1][1] < trip_needs[name][i][1]
                     /\ SumSeq(NeedsOf(trip_needs[name])) = aggregated[name].total_qty

\* The pudding powder is in both meals of the first trip and in the one meal
\* of the second; both persons eat it.
C19_Witness ==
    /\ pc = "aggregated"
    /\ Len(meal_plan.meals) = 2
    /\ Len(meal_plan.shopping_trips) = 2
    /\ Len(meal_plan.shopping_trips[1]) = 2
    /\ meal_plan.meals[2].name = "Ryz"
    /\ Len(trip_needs["budyn"]) = 2
    /\ DOMAIN aggregated["budyn"].per_person_totals = Persons
    /\ trip_needs["budyn"][1][2] > trip_needs["budyn"][2][2]
    /\ trip_needs["budyn"][2][2] > 0
    /\ aggregated["budyn"].per_person_totals["John"].quantity > 0
    /\ aggregated["budyn"].per_person_totals["Jane"].quantity > 0

\* The warnings round_and_distribute_ingredients hands to its caller: none
\* when it raised.
EmittedWarnings == IF error = "none" THEN warnings ELSE <<>>

\* C10: round_and_distribute_ingredients emits exactly one warning for a
\* package-constrained ingredient when its original plan-wide total is not 0
\* and |rounded - original| / original > 0.5, and none for it otherwise; the
\* warning's percent_change is that ratio.
C10_WarningThreshold ==
    (/\ config.enable_ingredient_rounding
     /\ pc = "distributed" \/ (pc = "failed" /\ error = DivisionByZero))
        => \A name \in PackagedNames :
               LET original == OriginalTotal(name)
                   rounded == RoundedTotal(original,
                                  UnitSizeOf(ingredient_details, name))
                   mine == SelectSeq(EmittedWarnings,
                               LAMBDA w : w.ingredient_name = name)
               IN  IF original # 0 /\ 2 * Abs(rounded - original) > Abs(original)
                   THEN /\ Len(mine) = 1
                        /\ mine[1].percent_change =
                               Rat(Abs(rounded - original), Abs(original))
                   ELSE mine = <<>>

\* The meals of the plan that hold an ingredient, as the warning generator
\* meets them: the warning of the packaged ingredient is generated on the
\* expanded plan.
MealsHolding(name) ==
    {k \in 1..Len(hist.expanded.meals) :
        EntriesOf(hist.expanded.meals[k], name) # {}}

\* Adding n portions to meal k alone brings its own rounding error to at
\* most 30%: with c current portions and quantity q the test total is
\* t = (c + n) * q / c (n * q when c = 0) and the test is
\* |round(t / U) * U - t| / t <= 0.3.
FitsAlone(k, name, U, n) ==
    LET meal == hist.expanded.meals[k]
        c == SumFn([p \in DOMAIN meal.eating_dates_per_person |->
                       meal.eating_dates_per_person[p]])
        q == MealQuantity(meal, name)
        tn == (c + n) * q
        td == IF c > 0 THEN c ELSE 1
    IN  10 * Abs(PyRound(tn, td * U) * U * td - tn) <= 3 * tn

\* The smallest fitting increase of meal k lies in 6..9.
SuggestionAboveFive(k, name, U) ==
    /\ \A n \in 1..MaxPracticalIncrease : ~FitsAlone(k, name, U, n)
    /\ \E n \in (MaxPracticalIncrease + 1)..MaxMealIncrease : FitsAlone(k, name, U, n)

\* C11 as stated: every rounding warning that is emitted has
\* percent_change > 0.5 and a meals list with at least one entry.
C11_WarningHasMeals ==
    \A i \in 1..Len(EmittedWarnings) :
        /\ 2 * EmittedWarnings[i].percent_change.n > EmittedWarnings[i].percent_change.d
        /\ Len(EmittedWarnings[i].meals) >= 1

\* C11 as amended: every rounding warning that is emitted has
\* percent_change > 0.5, and its meals list holds one entry, with a
\* suggestion in 0..5, for each meal containing the ingredient whose
\* smallest fitting increase is not in 6..9: the list is empty exactly when
\* every meal containing the ingredient has its smallest fitting increase
\* in 6..9.
C11_WarningListsPracticalMeals ==
    \A i \in 1..Len(EmittedWarnings) :
        LET w == EmittedWarnings[i]
            listed == {k \in MealsHolding(w.ingredient_name) :
                          ~SuggestionAboveFive(k, w.ingredient_name, w.unit_size)}
        IN  /\ 2 * w.percent_change.n > w.percent_change.d
            /\ Len(w.meals) = Cardinality(listed)
            /\ \A m \in 1..Len(w.meals) :
                   w.meals[m].suggested_additional_portions \in 0..MaxPracticalIncrease
            /\ (w.meals = <<>>) <=> (listed = {})

\* A warning for two meals that hold the ingredient: one is listed, the
\* other needs more than 5 extra portions and is left out.
C11_Witness ==
    /\ pc = "done"
    /\ Len(warnings) = 1
    /\ Len(warnings[1].meals) = 1
    /\ Cardinality(MealsHolding(warnings[1].ingredient_name)) = 2
    /\ 2 * warnings[1].percent_change.n > warnings[1].percent_change.d

----------------------------------------------------------------------------
(* Properties of the one-meal requests (SpecCal) *)

\* What calculate_meal_calories can return for the meal before rounding and
\* after round_and_distribute_ingredients.
CaloriesBefore ==
    calculate_meal_calories(config, ingredient_details, hist.expanded.meals[1])

CaloriesAfter ==
    calculate_meal_calories(config, ingredient_details, meal_plan.meals[1])

EatersOf(prof) ==
    {p \in Persons :
        /\ plan.scheduled_meals[1].eating_dates_per_person[p] > 0
        /\ ProfileOf(config, p) = prof}

\* The adjustable ingredient gives the profile calories before rounding.
AdjustableSupplies(prof) ==
    EntryCalories(config, ingredient_details,
                  hist.expanded.meals[1].ingredients[2], prof).n > 0

----------------------------------------------------------------------------
(* Properties of the Recipe Expander (SpecExpand) *)

\* The positions of the scheduled meals.
Scheduled == 1..Len(plan.scheduled_meals)

\* C12: for every scheduled meal, recipe ingredient and person with at
\* least one eating date, expand_meal_plan sets the person's quantity to
\* round(base_quantity * serving_multiplier(person's diet profile) * number
\* of eating dates), with multiplier 1.0 when the profile is absent from the
\* recipe's multipliers; persons with zero eating dates get no per-person
\* entry; the ingredient total is the sum of the per-person quantities.
C12_ExpansionFormula ==
    pc = "expanded" =>
        /\ Len(meal_plan.meals) = Len(plan.scheduled_meals)
        /\ \A i \in Scheduled :
               LET scheduled == plan.scheduled_meals[i]
                   recipe == meals_db[scheduled.meal_id]
                   dates == scheduled.eating_dates_per_person
               IN  /\ Len(meal_plan.meals[i].ingredients) = Len(recipe.ingredients)
                   /\ \A j \in 1..Len(recipe.ingredients) :
                          LET base == recipe.ingredients[j].quantity
                              ing == meal_plan.meals[i].ingredients[j]
                          IN  /\ ing.name = recipe.ingredients[j].name
                              /\ DOMAIN ing.per_person = {p \in DOMAIN dates : dates[p] > 0}
                              /\ \A p \in DOMAIN ing.per_person :
                                     LET profile == config.diet_profiles[p]
                                         mult == IF profile \in DOMAIN recipe.base_servings
                                                 THEN recipe.base_servings[profile]
                                                 ELSE [n |-> 1, d |-> 1]
                                     IN  ing.per_person[p].quantity =
                                             PyRound(base * mult.n * dates[p], mult.d)
                              /\ ing.quantity = SumFn([p \in DOMAIN ing.per_person |->
                                                          ing.per_person[p].quantity])

\* The pudding for John (multiplier 1.5, 2 portions) and the rice dish for
\* Jane, whose profile has no multiplier in that recipe (1.0, 1 portion).
C12_Witness ==
    /\ pc = "expanded"
    /\ Len(meal_plan.meals) = 2
    /\ plan.scheduled_meals[1].meal_id = "budyn"
    /\ plan.scheduled_meals[1].eating_dates_per_person = [John |-> 2, Jane |-> 0]
    /\ meal_plan.meals[1].ingredients[1].per_person = [John |-> [quantity |-> 3, portions |-> 2]]
    /\ meal_plan.meals[1].ingredients[2].quantity = 12
    /\ plan.scheduled_meals[2].meal_id = "ryz"
    /\ plan.scheduled_meals[2].eating_dates_per_person = [John |-> 1, Jane |-> 1]
    /\ meal_plan.meals[2].ingredients[1].per_person["Jane"].quantity = 3
    /\ meal_plan.meals[2].ingredients[1].quantity = 6

\* The multiplier of a recipe ingredient for a profile as the claim states
\* it: the ingredient's own multiplier when it carries one for the profile,
\* else the recipe's, else 1.0.
StatedMultiplier(recipe, base_ing, profile) ==
    IF "base_servings" \in DOMAIN base_ing /\ profile \in DOMAIN base_ing.base_servings
    THEN base_ing.base_servings[profile]
    ELSE Get(recipe.base_servings, profile, One)

\* C23: when a recipe ingredient carries its own override multiplier for a
\* diet profile, the Expander uses that ingredient-level multiplier instead
\* of the recipe-level serving multiplier when computing the quantity for
\* persons of that profile.
C23_IngredientOverrideUsed ==
    pc = "expanded" =>
        \A i \in Scheduled :
            LET scheduled == plan.scheduled_meals[i]
                recipe == meals_db[scheduled.meal_id]
            IN  \A j \in 1..Len(recipe.ingredients) :
                    LET base_ing == recipe.ingredients[j]
                        ing == meal_plan.meals[i].ingredients[j]
                    IN  \A p \in DOMAIN ing.per_person :
                            LET mult == StatedMultiplier(recipe, base_ing,
                                                         config.diet_profiles[p])
                            IN  ing.per_person[p].quantity =
                                    PyRound(base_ing.quantity * mult.n
                                                * scheduled.eating_dates_per_person[p],
                                            mult.d)

\* The scheduled meals whose recipe id is not in the recipe database.
UnknownRecipe == {i \in Scheduled : plan.scheduled_meals[i].meal_id \notin DOMAIN meals_db}

\* No expanded plan was returned and no later stage ran.
NothingReturned ==
    /\ pc = "failed"
    /\ meal_plan = <<>>
    /\ aggregated = <<>>
    /\ warnings = <<>>
    /\ ingredients_per_trip = <<>>

UnmappedEaterAt ==
    {i \in Scheduled \ UnknownRecipe :
        /\ meals_db[plan.scheduled_meals[i].meal_id].ingredients # <<>>
        /\ \E p \in Persons :
               /\ plan.scheduled_meals[i].eating_dates_per_person[p] > 0
               /\ p \notin DOMAIN config.diet_profiles}

C14_UnmappedPersonFails ==
    (/\ pc # "start"
     /\ \E i \in Scheduled :
            \E p \in DOMAIN plan.scheduled_meals[i].eating_dates_per_person :
                p \notin DOMAIN config.diet_profiles)
        => pc = "failed" /\ error # "none"

----------------------------------------------------------------------------
(* Properties of the nutrition requests (SpecNutrition) *)

\* Some ingredient of a recipe the plan schedules has no catalog entry.
IngredientWithoutEntry ==
    \E i \in Scheduled :
        /\ plan.scheduled_meals[i].meal_id \in DOMAIN meals_db
        /\ \E j \in 1..Len(meals_db[plan.scheduled_meals[i].meal_id].ingredients) :
               meals_db[plan.scheduled_meals[i].meal_id].ingredients[j].name
                   \notin DOMAIN ingredient_details

\* C15: when nutrition is requested for a plan in which some recipe
\* ingredient has no catalog entry, the request fails with a 'catalog entry
\* missing' error instead of returning nutrition values (whereas rounding
\* and distribution on the same plan complete).
C15_NutritionNeedsCatalogEntry ==
    IngredientWithoutEntry => pc \notin {"nutrition", "meal_nutrition"}

----------------------------------------------------------------------------
(* Properties of two requests on one planner (SpecPair) *)

\* What a request on plan p returns when it runs alone on the planner as it
\* was created.
AloneResult(p) ==
    LET expanded == expand_meal_plan(peer.planner.config, peer.planner.meals_db, p)
    IN  IF expanded.error # "none" THEN [error |-> expanded.error]
        ELSE RoundAndDistribute(peer.planner.config, peer.planner.ingredient_details,
                                expanded.meal_plan)

\* A request that has ended has the error or the results of its run alone.
SameAsAlone(request) ==
    /\ request.pc = "failed" => AloneResult(request.plan).error = request.error
    /\ request.pc = "done" =>
           LET alone == AloneResult(request.plan)
           IN  /\ alone.error = "none"
               /\ alone.meal_plan = request.meal_plan
               /\ alone.ingredients_per_trip = request.ingredients_per_trip
               /\ alone.warnings = request.warnings
               /\ alone.calorie_adjustments = request.calorie_delta_per_profile

\* No step writes to the recipe database, the catalog or the configuration.
PlannerUntouched ==
    /\ meals_db' = meals_db
    /\ ingredient_details' = ingredient_details
    /\ config' = config

----------------------------------------------------------------------------
(* Properties of the requests with light ingredients (SpecLight) *)

\* No profile's accumulated delta exceeds 0.1 kcal in absolute value.
DeltasWithinEpsilon ==
    \A prof \in DOMAIN calorie_delta_per_profile :
        10 * Abs(calorie_delta_per_profile[prof].n) <= calorie_delta_per_profile[prof].d

\* Entry j of meal k is what expansion produced.
AsExpanded(k, j) ==
    meal_plan.meals[k].ingredients[j] = hist.expanded.meals[k].ingredients[j]

\* C21: if no diet profile's accumulated calorie delta exceeds 0.1 kcal in
\* absolute value, compensation is skipped entirely: every adjustable
\* ingredient's total and per-person quantities in every meal are the same
\* after round_and_distribute_ingredients as after expansion.
C21_SmallDeltaSkipsCompensation ==
    (pc = "done" /\ DeltasWithinEpsilon) =>
        /\ ~hist.comp_ran
        /\ \A k \in 1..Len(meal_plan.meals) :
               \A j \in 1..Len(meal_plan.meals[k].ingredients) :
                   IsAdjustable(ingredient_details, meal_plan.meals[k].ingredients[j].name)
                       => AsExpanded(k, j)

\* A request returned whose rounding of the packaged ingredient changed the
\* plan and moved a profile by a delta that is not 0 and at most 0.1 kcal,
\* with an adjustable ingredient in the plan.
C21_Witness ==
    /\ pc = "done"
    /\ DeltasWithinEpsilon
    /\ \E prof \in DOMAIN calorie_delta_per_profile :
           calorie_delta_per_profile[prof].n # 0
    /\ \E k \in 1..Len(meal_plan.meals) :
           \E j \in 1..Len(meal_plan.meals[k].ingredients) :
               /\ meal_plan.meals[k].ingredients[j].name = "mleko"
               /\ meal_plan.meals[k].ingredients[j].quantity > 0
    /\ \E k \in 1..Len(meal_plan.meals) : ~AsExpanded(k, 1)

\* A person's part of the calorie delta of one rounded ingredient as the
\* claim states it: (rounded - original) * (person quantity / original) / 100
\* * calories_per_100, with share 0 when original is 0.
StatedPersonDelta(name, p) ==
    LET agg == OriginalAggregate.aggregated[name]
        original == agg.total_qty
        rounded == RoundedTotal(original, UnitSizeOf(ingredient_details, name))
    IN  IF original = 0 THEN RatZero
        ELSE Rat((rounded - original) * agg.per_person_totals[p].quantity
                     * CaloriesOf(ingredient_details, name),
                 original * 100)

\* The pairs <<ingredient, person>> of the rounded ingredients and the
\* persons who eat them.
RoundedShares ==
    {<<name, p>> \in PackagedNames \X Persons :
        p \in DOMAIN OriginalAggregate.aggregated[name].per_person_totals}

\* The whole calorie delta of one rounded ingredient.
StatedIngredientDelta(name) ==
    LET original == OriginalTotal(name)
        rounded == RoundedTotal(original, UnitSizeOf(ingredient_details, name))
    IN  Rat((rounded - original) * CaloriesOf(ingredient_details, name), 100)

\* C22: the per-profile calorie adjustment returned by
\* round_and_distribute_ingredients is, for each diet profile, the sum over
\* all package-rounded ingredients and all persons of that profile of
\* (rounded - original) * (person quantity / original) / 100 *
\* calories_per_100 (share 0 when original is 0); hence the adjustments
\* summed over all profiles equal the sum over the rounded ingredients of
\* (rounded - original) / 100 * calories_per_100 whenever each original
\* total is positive.
C22_AdjustmentIsShareOfDelta ==
    pc = "done" =>
        /\ DOMAIN calorie_delta_per_profile =
               {ProfileOf(config, s[2]) : s \in RoundedShares}
        /\ \A prof \in DOMAIN calorie_delta_per_profile :
               calorie_delta_per_profile[prof] =
                   RatSumFn([s \in {s \in RoundedShares : ProfileOf(config, s[2]) = prof}
                                |-> StatedPersonDelta(s[1], s[2])])
        /\ (\A name \in PackagedNames : OriginalTotal(name) > 0)
               => RatSumFn(calorie_delta_per_profile) =
                      RatSumFn([name \in PackagedNames |-> StatedIngredientDelta(name)])

\* Two rounded ingredients, the powder and the rice, move the same profile,
\* one up and one down or both the same way, and the other profile has a
\* delta of its own.
C22_Witness ==
    /\ pc = "done"
    /\ PackagedNames = {"budyn", "ryz"}
    /\ \A name \in PackagedNames :
           /\ OriginalTotal(name) > 0
           /\ StatedIngredientDelta(name).n # 0
    /\ DOMAIN calorie_delta_per_profile = {"high_calorie", "low_calorie"}
    /\ \A prof \in DOMAIN calorie_delta_per_profile :
           calorie_delta_per_profile[prof].n # 0

----------------------------------------------------------------------------
(* Properties of the order of the stages (SpecNutrition) *)

\* The delta of a profile once every package-constrained ingredient has
\* been rounded: the sum of the parts of the persons of the profile.
FullyAccumulatedDelta(prof) ==
    RatSumFn([s \in {s \in RoundedShares : ProfileOf(config, s[2]) = prof}
                 |-> StatedPersonDelta(s[1], s[2])])

\* Every package-constrained ingredient of the plan has been rounded, and
\* every profile holds its fully accumulated delta.
AllRoundedAndAccumulated ==
    /\ \A name \in PackagedNames :
           aggregated[name].total_qty =
               RoundedTotal(OriginalTotal(name), UnitSizeOf(ingredient_details, name))
    /\ DOMAIN calorie_delta_per_profile =
           {ProfileOf(config, s[2]) : s \in RoundedShares}
    /\ \A prof \in DOMAIN calorie_delta_per_profile :
           calorie_delta_per_profile[prof] = FullyAccumulatedDelta(prof)

\* The order of the stages of one request: the rounding and distribution of
\* the ingredients follows the aggregation, compensation starts from the plan
\* in which every ingredient is rounded and distributed, the trip lists
\* follow compensation, and the nutrition of a meal of the processed plan is
\* computed after the run has returned.
StageOrder ==
    /\ pc' = "distributed" => pc = "aggregated"
    /\ (pc' = "compensated" /\ config.enable_ingredient_rounding)
           => pc = "distributed" /\ AllRoundedAndAccumulated
    /\ pc' = "done" => pc = "compensated"
    /\ pc' = "meal_nutrition" => pc = "done"

\* The nutrition the plan-level call reports with rounding applied.
ReportedNutrition ==
    {r.nutrition_by_meal :
        r \in {r \in calculate_meal_plan_nutrition(config, meals_db, ingredient_details,
                                                   plan, TRUE) : r.error = "none"}}

----------------------------------------------------------------------------
(* Properties of the contents of the rounding warnings (Spec) *)

\* The sum of the eating-date counts over all persons of meal k.
PortionsOf(k) ==
    SumFn([p \in DOMAIN hist.expanded.meals[k].eating_dates_per_person |->
              hist.expanded.meals[k].eating_dates_per_person[p]])

\* The suggestion of meal k as stated: the smallest n in 1..9 that fits, 0
\* when there is none.
StatedSuggestion(k, name, U) ==
    LET fits == {n \in 1..MaxMealIncrease : FitsAlone(k, name, U, n)}
    IN  IF fits = {} THEN 0 ELSE CHOOSE n \in fits : \A m \in fits : n <= m

\* The meals a warning for the ingredient lists, in plan order: those that
\* hold the ingredient and whose suggestion is not in 6..9.
ListedBy(name, U) ==
    SelectSeq([k \in 1..Len(hist.expanded.meals) |-> k],
        LAMBDA k : /\ k \in MealsHolding(name)
                   /\ StatedSuggestion(k, name, U) <= MaxPracticalIncrease)

\* C25: in every warning, each listed meal's suggested_additional_portions
\* is the smallest integer n in 1..9 such that (current portions + n) *
\* (meal quantity / current portions), rounded to the nearest multiple of the
\* unit size, has relative error at most 30%, and is 0 when no n in 1..9
\* satisfies this; current_portions is the sum of eating-date counts over
\* all persons of that meal.
C25_SuggestionIsSmallestFit ==
    \A i \in 1..Len(EmittedWarnings) :
        LET w == EmittedWarnings[i]
            listed == ListedBy(w.ingredient_name, w.unit_size)
        IN  /\ Len(w.meals) = Len(listed)
            /\ \A m \in 1..Len(w.meals) :
                   /\ PortionsOf(listed[m]) > 0
                   /\ w.meals[m].current_portions = PortionsOf(listed[m])
                   /\ w.meals[m].suggested_additional_portions =
                          StatedSuggestion(listed[m], w.ingredient_name, w.unit_size)

\* A warning that lists one meal with a suggestion of 1 to 5 and another for
\* which no increase of 1 to 9 portions fits.
C25_Witness ==
    /\ pc = "done"
    /\ Len(warnings) = 1
    /\ Len(warnings[1].meals) = 2
    /\ warnings[1].meals[1].suggested_additional_portions
           # warnings[1].meals[2].suggested_additional_portions
    /\ \E m \in 1..2 : warnings[1].meals[m].suggested_additional_portions = 0
    /\ \E m \in 1..2 : warnings[1].meals[m].suggested_additional_portions > 1

\* Adding n portions to every meal that holds the ingredient brings the
\* plan-wide rounding error to at most 50%: the new total is the sum over
\* those meals of (c + n) * q / c and the test is
\* |round(total / U) * U - total| / total <= 0.5.
FitsTogether(name, U, n) ==
    LET total == RatSumFn([k \in MealsHolding(name) |->
                     Rat((PortionsOf(k) + n) * MealQuantity(hist.expanded.meals[k], name),
                         PortionsOf(k))])
    IN  2 * Abs(PyRound(total.n, total.d * U) * U * total.d - total.n) <= total.n

\* C26: in every warning, combined_increase is the smallest integer n in
\* 1..5 such that adding n portions to every meal that uses the ingredient
\* brings the plan-wide rounding error to at most 50%, and is 0 only when no
\* n in 1..5 achieves this; this holds whether one meal or several meals use
\* the ingredient.
C26_CombinedIncreaseIsSmallestFit ==
    \A i \in 1..Len(EmittedWarnings) :
        LET w == EmittedWarnings[i]
            fits == {n \in 1..MaxCombinedIncrease :
                        FitsTogether(w.ingredient_name, w.unit_size, n)}
        IN  IF fits = {}
            THEN w.combined_increase = 0
            ELSE w.combined_increase = CHOOSE n \in fits : \A m \in fits : n <= m

\* C27: a warning's meals list contains, in plan order, exactly the meals
\* that contain the ingredient and whose per-meal suggestion is 0 (no
\* solution found) or between 1 and 5; meals whose suggestion is between 6
\* and 9 are omitted, so every listed suggested_additional_portions lies in
\* 0..5.
C27_ListedMealsInPlanOrder ==
    \A i \in 1..Len(EmittedWarnings) :
        LET w == EmittedWarnings[i]
            holding == MealsHolding(w.ingredient_name)
            kept == {k \in holding :
                        StatedSuggestion(k, w.ingredient_name, w.unit_size)
                            \in 0..MaxPracticalIncrease}
            order == SelectSeq([k \in 1..Len(hist.expanded.meals) |-> k],
                               LAMBDA k : k \in kept)
        IN  /\ Len(w.meals) = Cardinality(kept)
            /\ \A m \in 1..Len(w.meals) :
                   /\ w.meals[m].meal_name = hist.expanded.meals[order[m]].name
                   /\ w.meals[m].current_portions = PortionsOf(order[m])
                   /\ w.meals[m].suggested_additional_portions \in 0..MaxPracticalIncrease
            /\ \A k \in holding \ kept :
                   StatedSuggestion(k, w.ingredient_name, w.unit_size)
                       \in (MaxPracticalIncrease + 1)..MaxMealIncrease

\* A warning for two meals of different recipes that hold the ingredient:
\* the first needs 6 to 9 extra portions and is omitted, the second is
\* listed.
C27_Witness ==
    /\ pc = "done"
    /\ Len(warnings) = 1
    /\ Len(hist.expanded.meals) = 2
    /\ MealsHolding(warnings[1].ingredient_name) = {1, 2}
    /\ hist.expanded.meals[1].name # hist.expanded.meals[2].name
    /\ Len(warnings[1].meals) = 1
    /\ warnings[1].meals[1].meal_name = hist.expanded.meals[2].name

----------------------------------------------------------------------------
(* Properties of the signs of the quantities (SpecLight) *)

\* Every ingredient total and every per-person quantity of every meal of
\* the plan is >= 0.
MealsNonNegative(mp) ==
    \A k \in 1..Len(mp.meals) :
        \A j \in 1..Len(mp.meals[k].ingredients) :
            LET ing == mp.meals[k].ingredients[j]
            IN  /\ ing.quantity >= 0
                /\ \A p \in DOMAIN ing.per_person : ing.per_person[p].quantity >= 0

\* Every entry of every trip of ingredients_per_trip is >= 0.
TripsNonNegative ==
    \A t \in 1..Len(ingredients_per_trip) :
        \A e \in 1..Len(ingredients_per_trip[t]) :
            ingredients_per_trip[t][e].quantity >= 0

\* C28: for any plan whose recipe quantities, multipliers and calorie values
\* are non-negative, after round_and_distribute_ingredients every ingredient
\* total and every per-person quantity in every meal and in every
\* ingredients_per_trip entry is >= 0, including when the calorie delta
\* added by rounding exceeds the calories supplied by the adjustable
\* ingredients and when intermediate trips over-allocate relative to the
\* rounded total.
C28_QuantitiesNonNegative ==
    pc = "done" => MealsNonNegative(meal_plan) /\ TripsNonNegative

----------------------------------------------------------------------------
(* Properties of a second call on the processed plan (SpecAgain) *)

\* The names, totals and per-person quantities of the ingredients of every
\* meal of a plan.
QuantitiesOf(mp) ==
    [k \in 1..Len(mp.meals) |->
        [j \in 1..Len(mp.meals[k].ingredients) |->
            [name |-> mp.meals[k].ingredients[j].name,
             quantity |-> mp.meals[k].ingredients[j].quantity,
             per_person |-> mp.meals[k].ingredients[j].per_person]]]

\* C29: calling round_and_distribute_ingredients a second time on the
\* expanded plan that a first call has already rounded, distributed and
\* compensated in place leaves every meal's ingredient totals and per-person
\* quantities unchanged and returns the same ingredients_per_trip as the
\* first call.
C29_SecondCallChangesNothing ==
    /\ (pc = "done_again" =>
           /\ QuantitiesOf(meal_plan) = QuantitiesOf(hist.prev.meal_plan)
           /\ ingredients_per_trip = hist.prev.ingredients_per_trip)
    /\ (pc = "failed" => "meal_plan" \notin DOMAIN hist.prev)

----------------------------------------------------------------------------
(* Properties of the requests with rounding switched off (Spec) *)

\* The plain sum, over the meals trip t lists, of the quantities of the
\* ingredient that expansion produced.
ExpandedTripSum(t, name) ==
    LET ids == plan.shopping_trips[t]
    IN  SumSeq([j \in 1..Len(ids) |->
            SumFn([k \in {k \in 1..Len(hist.expanded.meals) :
                              hist.expanded.meals[k].id = ids[j]} |->
                      MealQuantity(hist.expanded.meals[k], name)])])

\* C30: when enable_ingredient_rounding is false,
\* round_and_distribute_ingredients leaves every meal's ingredient totals and
\* per-person quantities exactly as expansion produced them, returns no
\* warnings and no calorie adjustments, and reports for each trip the plain
\* sums of its meals' ingredient quantities.
C30_DisabledRoundingChangesNothing ==
    ~config.enable_ingredient_rounding =>
        /\ error = "none"
        /\ pc \in {"aggregated", "distributed", "compensated", "done"} =>
               /\ QuantitiesOf(meal_plan) = QuantitiesOf(hist.expanded)
               /\ warnings = <<>>
               /\ calorie_delta_per_profile = EmptyDict
        /\ pc = "done" =>
               /\ Len(ingredients_per_trip) = Len(plan.shopping_trips)
               /\ \A t \in 1..Len(ingredients_per_trip) :
                      /\ \A name \in IngredientNames :
                             TripQuantity(t, name) = ExpandedTripSum(t, name)
                      /\ \A a, b \in 1..Len(ingredients_per_trip[t]) :
                             ingredients_per_trip[t][a].name = ingredients_per_trip[t][b].name
                                 => a = b

\* A request with rounding switched off has returned: its two trips list
\* meals whose pudding powder, 90 kcal per 100g and sold in packages of 3,
\* adds up to a quantity that is no whole number of packages.
C30_Witness ==
    /\ ~config.enable_ingredient_rounding
    /\ pc = "done"
    /\ Len(plan.shopping_trips) = 2
    /\ TripQuantity(1, "budyn") > 0
    /\ TripQuantity(2, "budyn") > 0
    /\ OriginalTotal("budyn") % UnitSizeOf(ingredient_details, "budyn") # 0

====
